---------------------------- MODULE Spec2Model ----------------------------
(***************************************************************************)
(* Model of the Redshift -> Snowflake dialect rewriter of                  *)
(* parser/snowflake_parser.py: the driver parse_redshift_to_snowflake, the *)
(* registry `parsers` and the rewrite rules; and of its caller             *)
(* update_query_sql_syntax of mode_utils/mode_helper.py.                   *)
(*                                                                         *)
(* SQL text is a sequence of lexemes.  A lexeme is either a single         *)
(* punctuation or whitespace character (" ", "\n", ",", "(", ")", ";",     *)
(* ".", "'", ":", "~", "=") or a whole word (a maximal run of word         *)
(* characters that is an identifier or a keyword) or one digit.  The       *)
(* regular expressions of the rules are translated lexeme for lexeme and   *)
(* are run by a backtracking matcher with Python's semantics: leftmost     *)
(* match, greedy quantifiers, alternatives tried in order, capture groups. *)
(***************************************************************************)
EXTENDS Integers, Sequences, FiniteSets, TLC

-----------------------------------------------------------------------------
(* Lexeme classes *)

\* Case folding used by re.IGNORECASE: the lower-case form of a lexeme.
\* (Lexemes written in upper or mixed case in the model, and their folds.)
CaseFold ==
    [ENCODE |-> "encode",
     ANALYZE |-> "analyze",
     DistKey |-> "distkey",
     SET |-> "set",
     TO |-> "to",
     SEARCH_PATH |-> "search_path",
     QUERY_GROUP |-> "query_group",
     BOOL |-> "bool",
     VARCHAR |-> "varchar",
     BOOL_OR |-> "bool_or",
     BOOLOR_AGG |-> "boolor_agg",
     BOOL_AND |-> "bool_and",
     BOOLAND_AGG |-> "booland_agg",
     BTRIM |-> "btrim",
     TRIM |-> "trim",
     CHAR_LENGTH |-> "char_length",
     LEN |-> "len",
     DATEPART |-> "datepart",
     DATE_PART |-> "date_part",
     DATE_DIFF |-> "date_diff",
     DATEDIFF |-> "datediff",
     DATE_ADD |-> "date_add",
     DATEADD |-> "dateadd",
     FROM_UNIXTIME |-> "from_unixtime",
     TO_TIMESTAMP |-> "to_timestamp",
     JSON_EXTRACT_PATH_TEXT |-> "json_extract_path_text",
     IS |-> "is",
     FALSE |-> "false",
     TRUE |-> "true",
     NVL |-> "nvl",
     COALESCE |-> "coalesce",
     SYSDATE |-> "sysdate",
     CURRENT_TIMESTAMP |-> "current_timestamp",
     CEILING |-> "ceiling",
     CEIL |-> "ceil",
     ISNULL |-> "isnull",
     UTC |-> "utc",
     PST |-> "pst",
     PDT |-> "pdt",
     America |-> "america",
     Los_Angeles |-> "los_angeles",
     ALTER |-> "alter",
     TABLE |-> "table",
     RENAME |-> "rename",
     CREATE |-> "create",
     DISTSTYLE |-> "diststyle",
     EVEN |-> "even",
     DISTKEY |-> "distkey",
     SORTKEY |-> "sortkey",
     WEEKS |-> "weeks",
     RESET |-> "reset",
     WLM_QUERY_SLOT_COUNT |-> "wlm_query_slot_count",
     AS |-> "as",
     TOTAL |-> "total",
     ETL |-> "etl",
     X |-> "x"]

Lower(t) == IF t \in DOMAIN CaseFold THEN CaseFold[t] ELSE t

\* Python's str.isspace / \s on the whitespace lexemes of the model.
Whitespace == {" ", "\n", "\r", "\t"}

\* Lexemes that are not word characters (\w is everything else).
Punct == Whitespace \cup {",", "(", ")", ";", ".", "'", ":", "~", "=", "/", "\"",
                          "-"}

Digits == {"0", "1", "2", "3", "4", "5", "6", "7", "8", "9"}

-----------------------------------------------------------------------------
(* Regular expressions (the subset the rules use) *)

\* a literal lexeme, compared under case folding (flags=re.IGNORECASE)
L(t) == [t |-> "lit", w |-> Lower(t)]
\* a character class given by the lexemes it contains
In(S) == [t |-> "in", s |-> S]
\* a character class given by the lexemes it excludes
NotIn(S) == [t |-> "notin", s |-> S]
Cat(rs) == [t |-> "cat", rs |-> rs]
Alt(rs) == [t |-> "alt", rs |-> rs]
Star(r) == [t |-> "star", r |-> r]
\* r*? : as few repetitions as possible
Lazy(r) == [t |-> "lazy", r |-> r]
\* a literal lexeme compared exactly (no re.IGNORECASE)
Exact(t) == [t |-> "exact", w |-> t]
\* ^ with re.MULTILINE: the start of the text or of a line
Bol == [t |-> "bol"]
Plus(r) == Cat(<<r, Star(r)>>)
Opt(r) == Alt(<<r, Cat(<<>>)>>)
Grp(n, r) == [t |-> "grp", n |-> n, r |-> r]

\* a literal string: the sequence of its lexemes
Lit(ts) == Cat([i \in 1..Len(ts) |-> L(ts[i])])

WS == In(Whitespace)                 \* \s
Dot == NotIn({"\n"})                 \* .  without re.DOTALL
DotAll == NotIn({})                  \* .  with re.DOTALL
Word == NotIn(Punct)                 \* \w
Digit == In(Digits)                  \* \d, [0-9]

NoCaps == [n \in 1..3 |-> <<>>]

RECURSIVE FlatMap(_, _, _, _)
RECURSIVE Matches(_, _, _, _)

\* All ways r matches s starting after position i (0-based offset), as a
\* sequence of <<end offset, captures>> in the order a backtracking matcher
\* tries them; its head is the match re uses.
Matches(r, s, i, caps) ==
    CASE r.t = "lit" ->
           IF i < Len(s) /\ Lower(s[i + 1]) = r.w
           THEN << <<i + 1, caps>> >> ELSE <<>>
      [] r.t = "in" ->
           IF i < Len(s) /\ s[i + 1] \in r.s
           THEN << <<i + 1, caps>> >> ELSE <<>>
      [] r.t = "notin" ->
           IF i < Len(s) /\ s[i + 1] \notin r.s
           THEN << <<i + 1, caps>> >> ELSE <<>>
      [] r.t = "cat" ->
           IF r.rs = <<>> THEN << <<i, caps>> >>
           ELSE FlatMap(Matches(Head(r.rs), s, i, caps), Cat(Tail(r.rs)), s, 1)
      [] r.t = "alt" ->
           IF r.rs = <<>> THEN <<>>
           ELSE Matches(Head(r.rs), s, i, caps)
                    \o Matches(Alt(Tail(r.rs)), s, i, caps)
      [] r.t = "star" ->
           FlatMap(Matches(r.r, s, i, caps), r, s, 1) \o << <<i, caps>> >>
      [] r.t = "lazy" ->
           << <<i, caps>> >> \o FlatMap(Matches(r.r, s, i, caps), r, s, 1)
      [] r.t = "exact" ->
           IF i < Len(s) /\ s[i + 1] = r.w
           THEN << <<i + 1, caps>> >> ELSE <<>>
      [] r.t = "bol" ->
           IF i = 0 \/ s[i] = "\n" THEN << <<i, caps>> >> ELSE <<>>
      [] r.t = "grp" ->
           LET ms == Matches(r.r, s, i, caps)
           IN  [k \in 1..Len(ms) |->
                  <<ms[k][1],
                    [ms[k][2] EXCEPT ![r.n] = SubSeq(s, i + 1, ms[k][1])]>>]

\* Continue each partial match of ms (from the k-th on) with r.
FlatMap(ms, r, s, k) ==
    IF k > Len(ms) THEN <<>>
    ELSE Matches(r, s, ms[k][1], ms[k][2]) \o FlatMap(ms, r, s, k + 1)

\* A replacement template: literal lexemes and \n back-references.
Text(ts) == [k |-> "text", ts |-> ts, n |-> 0]
Ref(n) == [k |-> "ref", ts |-> <<>>, n |-> n]

RECURSIVE Expand(_, _)
Expand(repl, caps) ==
    IF repl = <<>> THEN <<>>
    ELSE (IF Head(repl).k = "text" THEN Head(repl).ts ELSE caps[Head(repl).n])
             \o Expand(Tail(repl), caps)

RECURSIVE SubFrom_Lowering(_, _, _, _)
\* (the substitution is made on sql.lower(): text no match covers comes out
\* in lower case)
SubFrom_Lowering(r, repl, s, i) ==
    IF i >= Len(s) THEN <<>>
    ELSE LET ms == Matches(r, s, i, NoCaps)
         IN  IF ms # <<>> /\ ms[1][1] > i
             THEN Expand(repl, ms[1][2])
                      \o SubFrom_Lowering(r, repl, s, ms[1][1])
             ELSE <<Lower(s[i + 1])>> \o SubFrom_Lowering(r, repl, s, i + 1)

\* re.sub(pattern, repl, s): every non-overlapping match, scanning from the
\* left, is replaced by the expanded template.  (No pattern of the rules
\* matches the empty string, so a match always consumes a lexeme.)
RECURSIVE SubFrom(_, _, _, _)
SubFrom(r, repl, s, i) ==
    IF i >= Len(s) THEN <<>>
    ELSE LET ms == Matches(r, s, i, NoCaps)
         IN  IF ms # <<>> /\ ms[1][1] > i
             THEN Expand(repl, ms[1][2]) \o SubFrom(r, repl, s, ms[1][1])
             ELSE <<s[i + 1]>> \o SubFrom(r, repl, s, i + 1)

\* re.search(pattern, s): the pattern matches somewhere in s
Search(r, s) == \E i \in 0..Len(s) : Matches(r, s, i, NoCaps) # <<>>

Sub(r, repl, s) == SubFrom(r, repl, s, 0)

-----------------------------------------------------------------------------
(* The rewrite rules *)

\* parse_encoding (lines 26-40): """Remove encodings from DDL statements"""
parse_encoding(sql) ==
    LET s1 == Sub(Cat(<<WS, L("encode"), L(" "), Star(Dot), L(",")>>),
                  <<Text(<<",">>)>>, sql)
        s2 == Sub(Cat(<<WS, L("encode"), L(" "), Star(Dot)>>), <<>>, s1)
        s3 == Sub(Cat(<<WS, Lit(<<"timestamp", " ", "without", " ", "time",
                                  " ", "zone">>)>>),
                  <<Text(<<" ", "timestamp_ntz", "(", "9", ")">>)>>, s2)
    IN  s3

\* (only the keyword distkey is removed, not the clause distkey ... ")")
parse_dist_sort_KeywordOnly(sql) ==
    LET s1 == Sub(Cat(<<WS, L("diststyle"), L(" "),
                        Alt(<<L("all"), L("even"), L("auto"), L("key")>>)>>),
                  <<>>, sql)
        s3 == Sub(Cat(<<WS, L("diststyle"), Star(Dot), L(")")>>), <<>>, s1)
        s4 == Sub(Cat(<<Opt(Cat(<<Alt(<<L("compound"), L("interleaved")>>),
                                  L(" ")>>)),
                        L("sortkey"), Star(WS), L("("), Star(NotIn({"("})),
                        L(")")>>),
                  <<>>, s3)
        s5 == Sub(L("distkey"), <<>>, s4)
    IN  s5

\* parse_dist_sort (lines 43-65):
\* """Remove diststyle and sortkeys from DDL statements"""
parse_dist_sort(sql) ==
    LET s1 == Sub(Cat(<<WS, L("diststyle"), L(" "),
                        Alt(<<L("all"), L("even"), L("auto"), L("key")>>)>>),
                  <<>>, sql)
        s2 == Sub(Cat(<<L("distkey"), Star(DotAll), L(")")>>), <<>>, s1)
        s3 == Sub(Cat(<<WS, L("diststyle"), Star(Dot), L(")")>>), <<>>, s2)
        s4 == Sub(Cat(<<Opt(Cat(<<Alt(<<L("compound"), L("interleaved")>>),
                                  L(" ")>>)),
                        L("sortkey"), Star(WS), L("("), Star(NotIn({"("})),
                        L(")")>>),
                  <<>>, s3)
        s5 == Sub(L("distkey"), <<>>, s4)
    IN  s5

\* parse_bool (lines 68-78): """Convert bool to boolean"""
parse_bool(sql) ==
    LET s1 == Sub(Cat(<<L(" "), L("bool"), Star(WS),
                        Grp(1, In({",", "\n"}))>>),
                  <<Text(<<" ", "boolean">>), Ref(1)>>, sql)
        s2 == Sub(Cat(<<L(":"), L(":"), Star(WS), L("bool"), L(" ")>>),
                  <<Text(<<":", ":", " ", "boolean", " ">>)>>, s1)
    IN  s2

\* int_patterns of parse_int (line 83)
int_patterns == <<"integer", "int2", "int4", "int8", "bigint", "smallint">>

RECURSIVE SubEach(_, _, _)
\* for pattern in int_patterns: sql = re.sub(pattern, " int", sql)
SubEach(pats, k, sql) ==
    IF k > Len(pats) THEN sql
    ELSE SubEach(pats, k + 1,
                 Sub(Lit(<<" ", pats[k]>>), <<Text(<<" ", "int">>)>>, sql))

\* parse_int (lines 81-88): """Convert int to snowflake data type"""
parse_int(sql) == SubEach(int_patterns, 1, sql)

\* parse_varchar (lines 91-97)
parse_varchar(sql) ==
    Sub(Cat(<<Lit(<<" ", "varchar", "(">>), Plus(Digit), L(")")>>),
        <<Text(<<" ", "VARCHAR">>)>>, sql)

RECURSIVE RStrip(_, _)
\* str.rstrip(chars)
RStrip(s, chars) ==
    IF s # <<>> /\ s[Len(s)] \in chars
    THEN RStrip(SubSeq(s, 1, Len(s) - 1), chars) ELSE s

\* (only line terminators are stripped: sql.rstrip("\n\r"))
parse_trailing_whitespace_NewlinesOnly(sql) == RStrip(sql, {"\n", "\r"})

\* parse_trailing_whitespace (lines 100-102):
\* """Remove trailing whitespace, newline, line terminators"""
parse_trailing_whitespace(sql) == RStrip(RStrip(sql, {"\n", "\r"}), Whitespace)

\* parse_search_path (lines 105-110): """Convert set search_path"""
parse_search_path(sql) ==
    Sub(Lit(<<"set", " ", "search_path", " ", "to", " ">>),
        <<Text(<<"use", " ", "schema", " ">>)>>, sql)

\* (the table name is matched by .* with re.DOTALL, which runs to the last
\* ";" of the text)
parse_analyze_Greedy(sql) ==
    Sub(Cat(<<L("analyze"), L(" "), Star(DotAll), L(";")>>), <<>>, sql)

\* parse_analyze (lines 113-118): """Remove all analyze statements"""
parse_analyze(sql) ==
    Sub(Cat(<<L("analyze"), L(" "),
              Star(NotIn(Punct \ ({"."} \cup Whitespace))), L(";")>>),
        <<>>, sql)

\* parse_wlm_query_slot_count (lines 121-125)
parse_wlm_query_slot_count(sql) ==
    Sub(Cat(<<Lit(<<"set", " ", "wlm_query_slot_count", " ", "to", " ">>),
              Plus(Digit), L(";")>>),
        <<>>, sql)

\* parse_ctas (lines 128-133): """Convert create table as statements"""
parse_ctas(sql) ==
    Sub(Cat(<<Lit(<<"create", " ", "table", " ">>), Grp(1, Star(Dot)),
              L(" "), L("("), Star(WS), L("like"), Star(WS),
              Grp(2, Star(Dot)), Star(WS), L(")")>>),
        <<Text(<<"create", " ", "table", " ">>), Ref(1),
          Text(<<" ", "like", " ">>), Ref(2)>>, sql)

\* (the qualifier is taken from the table name, group 2)
parse_atrt_TableQualifier(sql) ==
    Sub(Cat(<<Lit(<<"alter", " ", "table", " ">>), Grp(1, Plus(Word)), L("."),
              Grp(2, Plus(Word)), Lit(<<" ", "rename", " ", "to", " ">>),
              Grp(3, Plus(Word))>>),
        <<Text(<<"alter", " ", "table", " ">>), Ref(1), Text(<<".">>), Ref(2),
          Text(<<" ", "rename", " ", "to", " ">>), Ref(2), Text(<<".">>),
          Ref(3)>>, sql)

\* (no qualifier is put before the target)
parse_atrt_NoQualifier(sql) ==
    Sub(Cat(<<Lit(<<"alter", " ", "table", " ">>), Grp(1, Plus(Word)), L("."),
              Grp(2, Plus(Word)), Lit(<<" ", "rename", " ", "to", " ">>),
              Grp(3, Plus(Word))>>),
        <<Text(<<"alter", " ", "table", " ">>), Ref(1), Text(<<".">>), Ref(2),
          Text(<<" ", "rename", " ", "to", " ">>), Ref(3)>>, sql)

\* parse_atrt (lines 136-142): """Convert alter table rename to statements"""
parse_atrt(sql) ==
    Sub(Cat(<<Lit(<<"alter", " ", "table", " ">>), Grp(1, Plus(Word)), L("."),
              Grp(2, Plus(Word)), Lit(<<" ", "rename", " ", "to", " ">>),
              Grp(3, Plus(Word))>>),
        <<Text(<<"alter", " ", "table", " ">>), Ref(1), Text(<<".">>), Ref(2),
          Text(<<" ", "rename", " ", "to", " ">>), Ref(1), Text(<<".">>),
          Ref(3)>>, sql)

\* parse_convert_timezone_utc (lines 145-151): """Convert utc time zone"""
parse_convert_timezone_utc(sql) ==
    Sub(Lit(<<"convert_timezone", "(", "'", "utc", "'">>),
        <<Text(<<"convert_timezone", "(", "'", "UTC", "'">>)>>, sql)

\* parse_convert_timezone_pacific (lines 154-160)
parse_convert_timezone_pacific(sql) ==
    Sub(Cat(<<Lit(<<"convert_timezone", "(">>),
              Grp(1, Alt(<<Lit(<<"'", "pst", "'">>),
                           Lit(<<"'", "pdt", "'">>)>>))>>),
        <<Text(<<"convert_timezone", "(", "'", "America", "/", "Los_Angeles",
                 "'">>)>>, sql)

\* parse_convert_date_trunc_weeks (lines 163-169)
parse_convert_date_trunc_weeks(sql) ==
    Sub(Lit(<<"date_trunc", "(", "'", "weeks", "'">>),
        <<Text(<<"date_trunc", "(", "'", "week", "'">>)>>, sql)

\* The dict `swaps` of parse_swap_methods (lines 174-192), in insertion
\* order: <<pattern, replacement>>.
swaps ==
    << <<L("BOOL_OR"), <<Text(<<"BOOLOR_AGG">>)>> >>,
       <<L("BOOL_AND"), <<Text(<<"BOOLAND_AGG">>)>> >>,
       <<Lit(<<" ", "~", " ", "'">>), <<Text(<<" ", "regexp", " ", "'">>)>> >>,
       <<L("BTRIM"), <<Text(<<"TRIM">>)>> >>,
       <<L("CHAR_LENGTH"), <<Text(<<"LEN">>)>> >>,
       <<L("DATEPART"), <<Text(<<"DATE_PART">>)>> >>,
       <<L("DATE_DIFF"), <<Text(<<"DATEDIFF">>)>> >>,
       <<Lit(<<"DATE_ADD", "(">>), <<Text(<<"DATEADD", "(">>)>> >>,
       <<Cat(<<Grp(1, Alt(<<L("DATEDIFF"), L("DATE_DIFF")>>)),
               Grp(2, Lit(<<"(", "'", "weeks", "'", ",">>)),
               Grp(3, Star(Dot))>>),
         <<Text(<<"DATEDIFF", "(", "'", "week", "'", ",", " ">>), Ref(3)>> >>,
       <<L("FROM_UNIXTIME"), <<Text(<<"TO_TIMESTAMP">>)>> >>,
       <<Cat(<<Lit(<<"JSON_EXTRACT_PATH_TEXT", "(">>),
               Grp(1, Star(NotIn(Punct \ {"."}))),
               Lit(<<",", " ", "'">>), Grp(2, Star(Word)),
               Lit(<<"'", ",", " ", "true", ")">>)>>),
         <<Ref(1), Text(<<":">>), Ref(2)>> >>,
       <<Lit(<<"IS", " ", "FALSE">>), <<Text(<<" ", "=", " ", "FALSE">>)>> >>,
       <<Lit(<<"IS", " ", "TRUE">>), <<Text(<<" ", "=", " ", "TRUE">>)>> >>,
       <<L("NVL"), <<Text(<<"COALESCE">>)>> >>,
       <<L("SYSDATE"), <<Text(<<"CURRENT_TIMESTAMP">>)>> >>,
       <<Lit(<<"CEILING", "(">>), <<Text(<<"CEIL", "(">>)>> >>,
       <<Lit(<<"ISNULL", "(">>), <<Text(<<"NVL", "(">>)>> >> >>

RECURSIVE SwapFrom_Reversed(_, _)
\* (the table is gone through from its last entry to its first)
SwapFrom_Reversed(k, sql) ==
    IF k > Len(swaps) THEN sql
    ELSE SwapFrom_Reversed(k + 1, Sub(swaps[Len(swaps) + 1 - k][1],
                                      swaps[Len(swaps) + 1 - k][2], sql))

RECURSIVE SwapFrom(_, _)
\* for orig, new in swaps.items(): sql = re.sub(orig, new, sql)
SwapFrom(k, sql) ==
    IF k > Len(swaps) THEN sql
    ELSE SwapFrom(k + 1, Sub(swaps[k][1], swaps[k][2], sql))

\* parse_swap_methods (lines 172-195): """Simple 1:1 swaps of method names."""
parse_swap_methods(sql) == SwapFrom(1, sql)

\* parse_tmp (lines 198-207): """Convert tmp stuff"""
parse_tmp(sql) ==
    LET s1 == Sub(Lit(<<"production", ".", "user_sessions_view">>),
                  <<Text(<<"production", ".", "user_sessions">>)>>, sql)
        s2 == Sub(L("rating__bigint"), <<Text(<<"rating">>)>>, s1)
    IN  s2

\* (the registry with parse_trailing_whitespace moved behind parse_analyze)
parsers_Reordered ==
    <<"parse_encoding", "parse_dist_sort", "parse_bool", "parse_int",
      "parse_varchar", "parse_swap_methods", "parse_search_path",
      "parse_analyze", "parse_trailing_whitespace", "parse_ctas", "parse_atrt",
      "parse_tmp", "parse_wlm_query_slot_count", "parse_convert_timezone_utc",
      "parse_convert_timezone_pacific", "parse_convert_date_trunc_weeks">>

\* The module-level list `parsers` (lines 210-227), by function name.
parsers ==
    <<"parse_encoding", "parse_dist_sort", "parse_bool", "parse_int",
      "parse_varchar", "parse_trailing_whitespace", "parse_swap_methods",
      "parse_search_path", "parse_analyze", "parse_ctas", "parse_atrt",
      "parse_tmp", "parse_wlm_query_slot_count", "parse_convert_timezone_utc",
      "parse_convert_timezone_pacific", "parse_convert_date_trunc_weeks">>

\* The patterns a rule passes to re.sub (lines 26-207);
\* parse_trailing_whitespace has none.
PatternsOf(rule) ==
    CASE rule = "parse_encoding" ->
             {Cat(<<WS, L("encode"), L(" "), Star(Dot), L(",")>>),
              Cat(<<WS, L("encode"), L(" "), Star(Dot)>>),
              Cat(<<WS, Lit(<<"timestamp", " ", "without", " ", "time", " ",
                              "zone">>)>>)}
      [] rule = "parse_dist_sort" ->
             {Cat(<<WS, L("diststyle"), L(" "),
                    Alt(<<L("all"), L("even"), L("auto"), L("key")>>)>>),
              Cat(<<L("distkey"), Star(DotAll), L(")")>>),
              Cat(<<WS, L("diststyle"), Star(Dot), L(")")>>),
              Cat(<<Opt(Cat(<<Alt(<<L("compound"), L("interleaved")>>),
                              L(" ")>>)),
                    L("sortkey"), Star(WS), L("("), Star(NotIn({"("})),
                    L(")")>>),
              L("distkey")}
      [] rule = "parse_bool" ->
             {Cat(<<L(" "), L("bool"), Star(WS), Grp(1, In({",", "\n"}))>>),
              Cat(<<L(":"), L(":"), Star(WS), L("bool"), L(" ")>>)}
      [] rule = "parse_int" ->
             {Lit(<<" ", int_patterns[k]>>) : k \in DOMAIN int_patterns}
      [] rule = "parse_varchar" ->
             {Cat(<<Lit(<<" ", "varchar", "(">>), Plus(Digit), L(")")>>)}
      [] rule = "parse_trailing_whitespace" -> {}
      [] rule = "parse_swap_methods" -> {swaps[k][1] : k \in DOMAIN swaps}
      [] rule = "parse_search_path" ->
             {Lit(<<"set", " ", "search_path", " ", "to", " ">>)}
      [] rule = "parse_analyze" ->
             {Cat(<<L("analyze"), L(" "),
                    Star(NotIn(Punct \ ({"."} \cup Whitespace))), L(";")>>)}
      [] rule = "parse_ctas" ->
             {Cat(<<Lit(<<"create", " ", "table", " ">>), Grp(1, Star(Dot)),
                    L(" "), L("("), Star(WS), L("like"), Star(WS),
                    Grp(2, Star(Dot)), Star(WS), L(")")>>)}
      [] rule = "parse_atrt" ->
             {Cat(<<Lit(<<"alter", " ", "table", " ">>), Grp(1, Plus(Word)),
                    L("."), Grp(2, Plus(Word)),
                    Lit(<<" ", "rename", " ", "to", " ">>),
                    Grp(3, Plus(Word))>>)}
      [] rule = "parse_tmp" ->
             {Lit(<<"production", ".", "user_sessions_view">>),
              L("rating__bigint")}
      [] rule = "parse_wlm_query_slot_count" ->
             {Cat(<<Lit(<<"set", " ", "wlm_query_slot_count", " ", "to", " ">>),
                    Plus(Digit), L(";")>>)}
      [] rule = "parse_convert_timezone_utc" ->
             {Lit(<<"convert_timezone", "(", "'", "utc", "'">>)}
      [] rule = "parse_convert_timezone_pacific" ->
             {Cat(<<Lit(<<"convert_timezone", "(">>),
                    Grp(1, Alt(<<Lit(<<"'", "pst", "'">>),
                                 Lit(<<"'", "pdt", "'">>)>>))>>)}
      [] rule = "parse_convert_date_trunc_weeks" ->
             {Lit(<<"date_trunc", "(", "'", "weeks", "'">>)}

\* Calling the function a registry entry names on a str.
ApplyRule(rule, sql) ==
    CASE rule = "parse_encoding" -> parse_encoding(sql)
      [] rule = "parse_dist_sort" -> parse_dist_sort(sql)
      [] rule = "parse_bool" -> parse_bool(sql)
      [] rule = "parse_int" -> parse_int(sql)
      [] rule = "parse_varchar" -> parse_varchar(sql)
      [] rule = "parse_trailing_whitespace" -> parse_trailing_whitespace(sql)
      [] rule = "parse_swap_methods" -> parse_swap_methods(sql)
      [] rule = "parse_search_path" -> parse_search_path(sql)
      [] rule = "parse_analyze" -> parse_analyze(sql)
      [] rule = "parse_ctas" -> parse_ctas(sql)
      [] rule = "parse_atrt" -> parse_atrt(sql)
      [] rule = "parse_tmp" -> parse_tmp(sql)
      [] rule = "parse_wlm_query_slot_count" -> parse_wlm_query_slot_count(sql)
      [] rule = "parse_convert_timezone_utc" -> parse_convert_timezone_utc(sql)
      [] rule = "parse_convert_timezone_pacific" ->
             parse_convert_timezone_pacific(sql)
      [] rule = "parse_convert_date_trunc_weeks" ->
             parse_convert_date_trunc_weeks(sql)

-----------------------------------------------------------------------------
(* Values a caller can pass as `sql` *)

None == [kind |-> "None", s |-> <<>>, n |-> 0]
Str(s) == [kind |-> "str", s |-> s, n |-> 0]
Num(n) == [kind |-> "int", s |-> <<>>, n |-> n]
\* str(e) of an exception, as a log message
ExcMsg(e) == [kind |-> "exc", s |-> <<e>>, n |-> 0]
\* no value yet
Unset == [kind |-> "unset", s |-> <<>>, n |-> 0]

\* (a test `sql is not None` in place of truthiness)
Truthy_IsNotNone(v) == v.kind # "None"

\* Python truthiness, as `if not sql` (lines 10 and 14) tests it
Truthy(v) ==
    \/ v.kind = "str" /\ v.s # <<>>
    \/ v.kind = "int" /\ v.n # 0

\* What parser(sql) (line 17) does with a value that is not a str: every
\* rule but parse_trailing_whitespace passes it to re.sub, which raises
\* TypeError; parse_trailing_whitespace calls sql.rstrip, which an int does
\* not have.
ArgumentError(rule) ==
    IF rule = "parse_trailing_whitespace" THEN "AttributeError"
    ELSE "TypeError"

\* The exception parser(sql) (line 17) raises because of its argument: none
\* ("") for a str.
Raises(rule, v) == IF v.kind = "str" THEN "" ELSE ArgumentError(rule)

\* The value parser(sql) returns for a str.
Result(rule, v) == Str(ApplyRule(rule, v.s))

-----------------------------------------------------------------------------
(* update_query_sql_syntax (mode_utils/mode_helper.py, lines 250-287) *)

\* str.upper on the lexemes the model writes in lower case inside quotes
UpperCase == [total |-> "TOTAL", x |-> "X"]

Upper(t) == IF t \in DOMAIN UpperCase THEN UpperCase[t] ELSE t

\* lines 253-254: an empty query becomes a comment
EmptyQueryComment(raw_query) ==
    IF raw_query = <<>> THEN <<"-", "-", " ", "empty", " ", "query">>
    ELSE raw_query

\* re.findall(pattern, s): the capture groups of every non-overlapping match
RECURSIVE FindAllFrom(_, _, _)
FindAllFrom(r, s, i) ==
    IF i >= Len(s) THEN <<>>
    ELSE LET ms == Matches(r, s, i, NoCaps)
         IN  IF ms # <<>> /\ ms[1][1] > i
             THEN <<ms[1][2]>> \o FindAllFrom(r, s, ms[1][1])
             ELSE FindAllFrom(r, s, i + 1)

FindAll(r, s) == FindAllFrom(r, s, 0)

\* str.replace(old, new): every non-overlapping occurrence, from the left
RECURSIVE ReplaceFrom(_, _, _, _)
ReplaceFrom(s, old, new, i) ==
    IF i >= Len(s) THEN <<>>
    ELSE IF old # <<>> /\ i + Len(old) <= Len(s)
               /\ SubSeq(s, i + 1, i + Len(old)) = old
         THEN new \o ReplaceFrom(s, old, new, i + Len(old))
         ELSE <<s[i + 1]>> \o ReplaceFrom(s, old, new, i + 1)

Replace(s, old, new) == ReplaceFrom(s, old, new, 0)

\* lines 256-258: (as\s+)("[^"]+"|'[^']+')([^\s]*?\s)
aliased_columns(raw_query) ==
    FindAll(Cat(<<Grp(1, Cat(<<L("as"), Plus(WS)>>)),
                  Grp(2, Alt(<<Cat(<<L("\""), Plus(NotIn({"\""})), L("\"")>>),
                               Cat(<<L("'"), Plus(NotIn({"'"})), L("'")>>)>>)),
                  Grp(3, Cat(<<Lazy(NotIn(Whitespace)), WS>>))>>),
            raw_query)

\* lines 259-262: every instance of a quoted alias is written in upper case
RECURSIVE UppercaseAliases(_, _, _)
UppercaseAliases(found, k, raw_query) ==
    IF k > Len(found) THEN raw_query
    ELSE LET column_id == found[k][2]
         IN  UppercaseAliases(found, k + 1,
                 Replace(raw_query, column_id,
                         [j \in 1..Len(column_id) |-> Upper(column_id[j])]))

\* lines 265-271: query groups are commented out (re.MULTILINE only)
CommentQueryGroups(raw_query) ==
    LET s1 == Sub(Cat(<<Bol, Exact("set"), Exact(" "), Exact("query_group"),
                        Exact(" "), Exact("to")>>),
                  <<Text(<<"-", "-", " ", "set", " ", "query_group", " ",
                           "to">>)>>, raw_query)
        s2 == Sub(Cat(<<Bol, Exact("reset"), Exact(" "),
                        Exact("query_group")>>),
                  <<Text(<<"-", "-", " ", "reset", " ", "query_group">>)>>, s1)
    IN  s2

\* lines 274-281
mode_etls ==
    <<"finance_customer_ops_and_fulfillment_costs", "finance_daily_gmv_lfc",
      "finance_daily_gmv_h2plan", "finance_daily_gmv_projection",
      "finance_interest_expense", "finance_reserves">>

\* lines 282-285: " etl.<name>" becomes " mode_etl.<name>" (the dot of the
\* pattern is not escaped)
RECURSIVE MigrateModeEtls(_, _)
MigrateModeEtls(k, raw_query) ==
    IF k > Len(mode_etls) THEN raw_query
    ELSE MigrateModeEtls(k + 1,
             Sub(Cat(<<L(" "), L("etl"), Dot, L(mode_etls[k])>>),
                 <<Text(<<" ", "mode_etl", ".", mode_etls[k]>>)>>, raw_query))

\* lines 250-285: the text update_query_sql_syntax passes on to
\* parse_redshift_to_snowflake (line 287)
PreparedQuery(raw_query) ==
    LET q1 == EmptyQueryComment(raw_query)
        q2 == UppercaseAliases(aliased_columns(q1), 1, q1)
        q3 == CommentQueryGroups(q2)
    IN  MigrateModeEtls(1, q3)

-----------------------------------------------------------------------------
(* Inputs *)

\* Pieces of SQL the inputs are put together from: a column with an
\* encoding hint, a further column, the end of the column list, a line
\* break, a statement the target dialect does not have, and a query that
\* ends in a blank.
Fragments ==
    << <<"a", " ", "int", " ", "encode", " ", "lzo">>,
       <<",", "b", " ", "bool">>,
       <<")">>,
       <<"\n">>,
       <<"analyze", " ", "t", ";">>,
       <<"select", " ", "bool_or", "(", "x", ")", " ">> >>

\* the largest number of fragments in an input text
MaxFrags == 2
\* the largest number of rule calls per call of the driver in which the
\* interpreter raises although the argument is a str (MemoryError)
MaxFailures == 1

RECURSIVE Texts(_)
\* the texts of at most k fragments
Texts(k) ==
    IF k = 0 THEN {<<>>}
    ELSE LET shorter == Texts(k - 1)
         IN  shorter \cup {s \o Fragments[f] :
                               s \in shorter, f \in 1..Len(Fragments)}

\* what a caller passes: a text, the empty text, None, or something that is
\* not text at all
Inputs == {Str(s) : s \in Texts(MaxFrags)} \cup {None, Num(0), Num(5)}

\* the inputs of two concurrent calls: one fragment each, or no text
ConcInputs == {Str(<<>>), None, Num(5)}
                  \cup {Str(Fragments[f]) : f \in 1..Len(Fragments)}

-----------------------------------------------------------------------------
(* Logging *)

\* logging.basicConfig(level=logging.INFO) (line 6): the levels the root
\* logger lets through.
EnabledLevels == {"INFO", "WARNING", "ERROR", "CRITICAL"}

\* A LogRecord: level, message, and the frames of the traceback of exc_info
\* (empty when the call passes no exception).
Record(level, msg, tb) == [level |-> level, msg |-> msg, tb |-> tb]

\* Logger.log: the record is handled only if its level is enabled.
Emit(lg, rec) == IF rec.level \in EnabledLevels THEN Append(lg, rec) ELSE lg

-----------------------------------------------------------------------------
(* The driver parse_redshift_to_snowflake (lines 9-23) *)

VARIABLES
    registry,   \* the module-level list `parsers`
    log,        \* the records the logger has handled, in order
    input,      \* input[c]: the argument of call c
    pc,         \* pc[c]: "caller" (in update_query_sql_syntax), "call"
                \* (line 10), "loop" (line 13), "done"
    idx,        \* idx[c]: position of the for loop's iterator in the list
    sql,        \* sql[c]: the local variable sql of call c
    trace,      \* trace[c]: the rule calls made so far by call c
    ret,        \* ret[c]: the value returned by call c
    budget,     \* budget[c]: interpreter failures call c may still meet
    raw_query,  \* raw_query[c]: the argument of update_query_sql_syntax when
                \* call c is made by it, else Unset
    argv,       \* the options of the command line of mode_helper.py
    mpc,        \* where main of mode_helper.py stands ("idle": not running)
    fn,         \* the do_* function main is in
    sent,       \* the requests handed to the session, in order
    answer,     \* what the operator typed at the prompt of main
    exit,       \* how the process ended
    srv_run,    \* the state of the report run on the server
    loc         \* the local variables of the functions of mode_helper.py

\* the state of a run of main of mode_helper.py
mainVars == <<argv, mpc, fn, sent, answer, exit, srv_run, loc>>

vars ==
    <<registry, log, input, pc, idx, sql, trace, ret, budget, raw_query,
      argv, mpc, fn, sent, answer, exit, srv_run, loc>>

\* the state of the callers in mode_helper.py, which the driver never touches
callerVars == <<raw_query, mainVars>>

\* how the process has ended: not yet, by returning from main, or by an
\* exception (SystemExit with its message, HTTPError with its status, ...)
\* raised by the `at`-th request or by no request (0)
NoExit == [kind |-> "none", status |-> 0, msg |-> <<>>, at |-> 0]

\* the locals before any function has run
NoLocals ==
    [token |-> "", prefix |-> <<>>, original |-> None, cloned |-> None,
     err |-> NoExit, spaces |-> <<>>, sk |-> 0, nulls |-> 0,
     report_queries |-> <<>>, space_type |-> "",
     report_name |-> <<>>, target |-> "", items |-> 0, queries |-> <<>>,
     qk |-> 0, run_state |-> "", polls |-> 0]

\* main of mode_helper.py is not run
NoMain ==
    /\ argv = <<>>
    /\ mpc = "idle"
    /\ fn = ""
    /\ sent = <<>>
    /\ answer = None
    /\ exit = NoExit
    /\ srv_run = ""
    /\ loc = NoLocals

Calls == DOMAIN pc

\* One rule call of the history: which rule, the text passed, whether it
\* returned, the text current afterwards, and the exception if it raised.
Called(rule, before, ok, after, exc) ==
    [rule |-> rule, before |-> before, ok |-> ok, after |-> after, exc |-> exc]

\* one call at a time
Init ==
    /\ registry = parsers
    /\ log = <<>>
    /\ input \in [{1} -> Inputs]
    /\ pc = [c \in {1} |-> "call"]
    /\ idx = [c \in {1} |-> 1]
    /\ sql = input
    /\ trace = [c \in {1} |-> <<>>]
    /\ ret = [c \in {1} |-> Unset]
    /\ budget = [c \in {1} |-> MaxFailures]
    /\ raw_query = [c \in {1} |-> Unset]
    /\ NoMain

\* lines 10-11: if not sql: return sql
ReturnEmptyInput(c) ==
    /\ pc[c] = "call"
    /\ ~Truthy(sql[c])
    /\ ret' = [ret EXCEPT ![c] = sql[c]]
    /\ pc' = [pc EXCEPT ![c] = "done"]
    /\ UNCHANGED <<registry, log, input, idx, sql, trace, budget>>

\* line 13: for parser in parsers (the iterator is created)
EnterLoop(c) ==
    /\ pc[c] = "call"
    /\ Truthy(sql[c])
    /\ pc' = [pc EXCEPT ![c] = "loop"]
    /\ idx' = [idx EXCEPT ![c] = 1]
    /\ UNCHANGED <<registry, log, input, sql, trace, ret, budget>>

\* lines 14-15: if not sql: return sql
EarlyReturn(c) ==
    /\ pc[c] = "loop"
    /\ idx[c] <= Len(registry)
    /\ ~Truthy(sql[c])
    /\ ret' = [ret EXCEPT ![c] = sql[c]]
    /\ pc' = [pc EXCEPT ![c] = "done"]
    /\ UNCHANGED <<registry, log, input, idx, sql, trace, budget>>

\* (the loop without the test of line 14)
RuleReturns_NoEmptyTest(c) ==
    /\ pc[c] = "loop"
    /\ idx[c] <= Len(registry)
    /\ LET rule == registry[idx[c]]
           new == Result(rule, sql[c])
       IN  /\ Raises(rule, sql[c]) = ""
           /\ sql' = [sql EXCEPT ![c] = new]
           /\ trace' = [trace EXCEPT
                          ![c] = Append(@, Called(rule, sql[c], TRUE, new, ""))]
           /\ log' = Emit(log, Record("DEBUG", new, <<>>))
    /\ idx' = [idx EXCEPT ![c] = @ + 1]
    /\ UNCHANGED <<registry, input, pc, ret, budget>>

\* (sql kept in a module-level variable that all calls share)
RuleReturns_SharedSql(c) ==
    /\ pc[c] = "loop"
    /\ idx[c] <= Len(registry)
    /\ Truthy(sql[c])
    /\ LET rule == registry[idx[c]]
           new == Result(rule, sql[c])
       IN  /\ Raises(rule, sql[c]) = ""
           /\ sql' = [d \in Calls |-> new]
           /\ trace' = [trace EXCEPT
                          ![c] = Append(@, Called(rule, sql[c], TRUE, new, ""))]
           /\ log' = Emit(log, Record("DEBUG", new, <<>>))
    /\ idx' = [idx EXCEPT ![c] = @ + 1]
    /\ UNCHANGED <<registry, input, pc, ret, budget>>

\* lines 16-17 and 21: the rule returns; its result becomes sql
RuleReturns(c) ==
    /\ pc[c] = "loop"
    /\ idx[c] <= Len(registry)
    /\ Truthy(sql[c])
    /\ LET rule == registry[idx[c]]
           new == Result(rule, sql[c])
       IN  /\ Raises(rule, sql[c]) = ""
           /\ sql' = [sql EXCEPT ![c] = new]
           /\ trace' = [trace EXCEPT
                          ![c] = Append(@, Called(rule, sql[c], TRUE, new, ""))]
           /\ log' = Emit(log, Record("DEBUG", new, <<>>))
    /\ idx' = [idx EXCEPT ![c] = @ + 1]
    /\ UNCHANGED <<registry, input, pc, ret, budget>>

\* The exceptions the call of `rule` on v can end with: the one its argument
\* causes, or else a failure of the interpreter (MemoryError is an
\* Exception), as long as the call's budget of such failures lasts.
Failures(c, rule, v) ==
    IF Raises(rule, v) # "" THEN {Raises(rule, v)}
    ELSE IF budget[c] > 0 THEN {"MemoryError"} ELSE {}

\* (no try/except around the rule call: the exception leaves the driver)
RuleRaises_Uncaught(c) ==
    /\ pc[c] = "loop"
    /\ idx[c] <= Len(registry)
    /\ Truthy(sql[c])
    /\ LET rule == registry[idx[c]]
       IN  \E e \in Failures(c, rule, sql[c]) :
             /\ trace' = [trace EXCEPT
                            ![c] = Append(@, Called(rule, sql[c], FALSE, sql[c], e))]
             /\ budget' = [budget EXCEPT
                             ![c] = IF e = "MemoryError" THEN @ - 1 ELSE @]
    /\ pc' = [pc EXCEPT ![c] = "done"]
    /\ UNCHANGED <<registry, log, input, idx, sql, ret>>

\* (the failed rule is tried again instead of skipped)
RuleRaises_Retry(c) ==
    /\ pc[c] = "loop"
    /\ idx[c] <= Len(registry)
    /\ Truthy(sql[c])
    /\ LET rule == registry[idx[c]]
       IN  \E e \in Failures(c, rule, sql[c]) :
             /\ trace' = [trace EXCEPT
                            ![c] = Append(@, Called(rule, sql[c], FALSE, sql[c], e))]
             /\ log' = Emit(Emit(Emit(log,
                          Record("ERROR", sql[c], <<>>)),
                          Record("ERROR", ExcMsg(e),
                                 <<"parse_redshift_to_snowflake", rule>>)),
                          Record("DEBUG", sql[c], <<>>))
             /\ budget' = [budget EXCEPT
                             ![c] = IF e = "MemoryError" THEN @ - 1 ELSE @]
    /\ UNCHANGED <<registry, input, pc, idx, sql, ret>>

\* lines 16-21: the rule raises an Exception; sql is not assigned, the text
\* and the exception are logged and the loop goes on
RuleRaises(c) ==
    /\ pc[c] = "loop"
    /\ idx[c] <= Len(registry)
    /\ Truthy(sql[c])
    /\ LET rule == registry[idx[c]]
       IN  \E e \in Failures(c, rule, sql[c]) :
             /\ trace' = [trace EXCEPT
                            ![c] = Append(@, Called(rule, sql[c], FALSE, sql[c], e))]
             /\ log' = Emit(Emit(Emit(log,
                          Record("ERROR", sql[c], <<>>)),
                          Record("ERROR", ExcMsg(e),
                                 <<"parse_redshift_to_snowflake", rule>>)),
                          Record("DEBUG", sql[c], <<>>))
             /\ budget' = [budget EXCEPT
                             ![c] = IF e = "MemoryError" THEN @ - 1 ELSE @]
    /\ idx' = [idx EXCEPT ![c] = @ + 1]
    /\ UNCHANGED <<registry, input, pc, sql, ret>>

\* lines 22-23: the list is exhausted; log the final text and return it
Finish(c) ==
    /\ pc[c] = "loop"
    /\ idx[c] > Len(registry)
    /\ log' = Emit(log, Record("INFO", sql[c], <<>>))
    /\ ret' = [ret EXCEPT ![c] = sql[c]]
    /\ pc' = [pc EXCEPT ![c] = "done"]
    /\ UNCHANGED <<registry, input, idx, sql, trace, budget>>

Next ==
    \/ \E c \in Calls : ReturnEmptyInput(c) /\ UNCHANGED callerVars
    \/ \E c \in Calls : EnterLoop(c) /\ UNCHANGED callerVars
    \/ \E c \in Calls : EarlyReturn(c) /\ UNCHANGED callerVars
    \/ \E c \in Calls : RuleReturns(c) /\ UNCHANGED callerVars
    \/ \E c \in Calls : RuleRaises(c) /\ UNCHANGED callerVars
    \/ \E c \in Calls : Finish(c) /\ UNCHANGED callerVars

Spec == Init /\ [][Next]_vars

\* Two calls running concurrently (threads of one interpreter), on texts of
\* one fragment; here rules raise only because of their argument.
InitConc ==
    /\ registry = parsers
    /\ log = <<>>
    /\ input \in {f \in [{1, 2} -> ConcInputs] : f[2].kind = "str"}
    /\ pc = [c \in {1, 2} |-> "call"]
    /\ idx = [c \in {1, 2} |-> 1]
    /\ sql = input
    /\ trace = [c \in {1, 2} |-> <<>>]
    /\ ret = [c \in {1, 2} |-> Unset]
    /\ budget = [c \in {1, 2} |-> 0]
    /\ raw_query = [c \in {1, 2} |-> Unset]
    /\ NoMain

SpecConc == InitConc /\ [][Next]_vars

-----------------------------------------------------------------------------
(* The driver on crafted statements (the text of a migration file, *)
(* lines 240-241)                                                  *)

Blanks == {" ", "\n"}

\* 'create table foo (<columns>)'
ColumnLists ==
    {<<"(", "a", " ", "int", ")">>,
     <<"(", "a", " ", "int", ",", " ", "b", " ", "int", ")">>}

CreateTable(cols) == <<"create", " ", "table", " ", "foo", " ">> \o cols

\* 'create table foo (...) diststyle <style> distkey(a)', the clauses set
\* off by a blank or a line break, the keywords in either case, and then the
\* end of the statement or a sort key
DistStatements ==
    {CreateTable(cols) \o <<b1, dw, " ", style, b2, kw, "(", "a", ")">> \o tail :
        cols \in ColumnLists, b1 \in Blanks, dw \in {"diststyle", "DISTSTYLE"},
        style \in {"all", "even", "auto", "key"}, b2 \in Blanks,
        kw \in {"distkey", "DISTKEY"},
        tail \in {<<>>, <<";">>, <<" ", "sortkey", "(", "a", ")", ";">>}}

Schemas == {"s", "myschema"}
Names == {"n", "newname"}
AlterWords ==
    {<<"alter", "table", "rename", "to">>, <<"ALTER", "TABLE", "RENAME", "TO">>}
\* what may stand before and behind the statement in the text
Before == {<<>>, <<"select", " ", "1", ";", "\n">>}
Behind == {<<>>, <<";">>}

\* 'alter table <schema>.t rename to <target>' with the keywords kw
AlterRename(kw, schema, target) ==
    <<kw[1], " ", kw[2], " ", schema, ".", "t", " ", kw[3], " ", kw[4], " ">>
        \o target

\* rename statements with an unqualified and with a qualified target
AtrtStatements ==
    {pre \o AlterRename(kw, schema, target) \o post :
        pre \in Before, kw \in AlterWords, schema \in Schemas,
        target \in {<<n>> : n \in Names}
                       \cup {<<s2, ".", n>> : s2 \in Schemas, n \in Names},
        post \in Behind}

\* a query that uses one source spelling of the swap table
Select(expr) == <<"select", " ">> \o expr \o <<" ", "from", " ", "t">>

SwapStatements ==
    {Select(e) : e \in
        {<<"bool_or", "(", "x", ")">>, <<"BOOL_AND", "(", "x", ")">>,
         <<"x", " ", "~", " ", "'", "a", "'">>, <<"btrim", "(", "x", ")">>,
         <<"CHAR_LENGTH", "(", "x", ")">>, <<"datepart", "(", "x", ")">>,
         <<"date_diff", "(", "'", "day", "'", ",", " ", "a", ",", " ", "b", ")">>,
         <<"date_add", "(", "x", ")">>, <<"from_unixtime", "(", "x", ")">>,
         <<"x", " ", "is", " ", "false">>, <<"x", " ", "IS", " ", "TRUE">>,
         <<"nvl", "(", "x", ")">>, <<"sysdate">>, <<"ceiling", "(", "x", ")">>,
         <<"isnull", "(", "x", ")">>,
         <<"isnull", "(", "nvl", "(", "x", ")", ")">>,
         <<"bool_or", "(", "x", ")", ",", " ", "bool_or", "(", "y", ")">>}}

\* datediff('weeks', <a>, <b>) under one of its spellings
WeeksCall(f, unit, a, b) ==
    <<f, "(", "'", unit, "'", ",", " ", a, ",", " ", b, ")">>

\* queries with one week-granularity call, and with two on one line or on
\* two lines
WeeksStatements ==
    {Select(WeeksCall(f, u, "a", "b")) :
        f \in {"datediff", "date_diff", "DATEDIFF"}, u \in {"weeks", "WEEKS"}}
      \cup
    {Select(WeeksCall(f, "weeks", "a", "b") \o <<",", sep>>
              \o WeeksCall(g, "weeks", "c", "d")) :
        f \in {"datediff", "date_diff"}, g \in {"datediff", "date_diff"},
        sep \in Blanks}

\* a text that ends in a sort key or a distribution key and white space
OrderStatements ==
    {pre \o <<" ", kw, "(", "a", ")">> \o ws :
        pre \in {<<>>, CreateTable(<<"(", "a", " ", "int", ")">>)},
        kw \in {"sortkey", "distkey"},
        ws \in {<<>>, <<" ">>, <<"\n">>, <<" ", "\n">>}}

\* column lists with columns of type bool, and casts to bool
BoolStatements ==
    {<<"create", " ", "table", " ", "t", " ", "(", "a", " ", "bool", ",", " ",
       "b", " ", "bool", ")">>,
     <<"create", " ", "table", " ", "t", " ", "(", "a", " ", "bool", ",", "\n",
       " ", "b", " ", "bool", "\n", ")">>,
     <<"create", " ", "table", " ", "t", " ", "(", "a", " ", "BOOL", ")">>,
     Select(<<"a", ":", ":", "bool">>),
     Select(<<"a", ":", ":", "bool", ",", " ", "b">>),
     Select(<<"(", "a", ":", ":", "bool", ")">>)}

\* the statements of a migration script: queries, and table-statistics
\* statements 'analyze <table>;'
ScriptStatements ==
    {<<"select", " ", "1", ";">>,
     <<"select", " ", "a", " ", "from", " ", "s", ".", "t", ";">>,
     <<"analyze", " ", "t", ";">>,
     <<"ANALYZE", " ", "s", ".", "t", ";">>}

\* scripts of two or three statements, one to a line or all on one line
AnalyzeScripts ==
    {s1 \o <<sep>> \o s2 :
        s1 \in ScriptStatements, s2 \in ScriptStatements, sep \in Blanks}
      \cup
    {s1 \o <<sep>> \o s2 \o <<sep>> \o s3 :
        s1 \in ScriptStatements, s2 \in ScriptStatements,
        s3 \in ScriptStatements, sep \in Blanks}

\* 'create table t (a int distkey, b int)<tail>': distkey given as a column
\* attribute inside the column list
ColumnDistkey(kw, tail) ==
    <<"create", " ", "table", " ", "t", " ", "(", "a", " ", "int", " ", kw,
      ",", " ", "b", " ", "int", ")">> \o tail

ColumnDistStatements ==
    {ColumnDistkey(kw, tail) :
        kw \in {"distkey", "DISTKEY"},
        tail \in {<<";">>, <<" ", "sortkey", "(", "a", ")", ";">>}}

RuleInputs ==
    {Str(s) : s \in DistStatements \cup AtrtStatements \cup SwapStatements
                      \cup WeeksStatements \cup OrderStatements
                      \cup BoolStatements \cup AnalyzeScripts
                      \cup ColumnDistStatements}
        \cup {Str(<<>>), Num(5)}

\* one call on a crafted statement; rules raise only because of their
\* argument
InitRules ==
    /\ registry = parsers
    /\ log = <<>>
    /\ input \in [{1} -> RuleInputs]
    /\ pc = [c \in {1} |-> "call"]
    /\ idx = [c \in {1} |-> 1]
    /\ sql = input
    /\ trace = [c \in {1} |-> <<>>]
    /\ ret = [c \in {1} |-> Unset]
    /\ budget = [c \in {1} |-> 0]
    /\ raw_query = [c \in {1} |-> Unset]
    /\ NoMain

SpecRules == InitRules /\ [][Next]_vars

-----------------------------------------------------------------------------
(* update_query_sql_syntax calling the driver (mode_helper.py, line 287) *)

\* the lines of a report's query
QueryLines ==
    {<<"set", " ", "query_group", " ", "to", " ", "'", "x", "'", ";">>,
     <<"SET", " ", "QUERY_GROUP", " ", "TO", " ", "'", "x", "'", ";">>,
     <<"reset", " ", "query_group", ";">>,
     <<"RESET", " ", "QUERY_GROUP", ";">>,
     <<"set", " ", "wlm_query_slot_count", " ", "to", " ", "3", ";">>,
     <<"select", " ", "1", ";">>,
     <<"select", " ", "x", " ", "as", " ", "\"", "total", "\"", " ", "from",
       " ", "etl", ".", "finance_reserves">>,
     <<"analyze", " ", "t", ";">>}

\* queries of no, one or two lines
RawQueries ==
    {<<>>} \cup QueryLines
        \cup {l1 \o <<"\n">> \o l2 : l1 \in QueryLines, l2 \in QueryLines}

\* update_query_sql_syntax has been called with a query of a report
InitMode ==
    /\ registry = parsers
    /\ log = <<>>
    /\ raw_query \in [{1} -> {Str(q) : q \in RawQueries}]
    /\ input = [c \in {1} |-> Unset]
    /\ pc = [c \in {1} |-> "caller"]
    /\ idx = [c \in {1} |-> 1]
    /\ sql = [c \in {1} |-> Unset]
    /\ trace = [c \in {1} |-> <<>>]
    /\ ret = [c \in {1} |-> Unset]
    /\ budget = [c \in {1} |-> MaxFailures]
    /\ NoMain

\* lines 250-287 up to the call: the query is prepared and passed to
\* parse_redshift_to_snowflake, whose result update_query_sql_syntax returns
update_query_sql_syntax(c) ==
    /\ pc[c] = "caller"
    /\ input' = [input EXCEPT ![c] = Str(PreparedQuery(raw_query[c].s))]
    /\ sql' = [sql EXCEPT ![c] = Str(PreparedQuery(raw_query[c].s))]
    /\ pc' = [pc EXCEPT ![c] = "call"]
    /\ UNCHANGED <<registry, log, idx, trace, ret, budget, raw_query>>
    /\ UNCHANGED mainVars

\* The prepared query is never empty (lines 253-254), so the driver never
\* returns at line 11 here.
NextMode ==
    \/ \E c \in Calls : update_query_sql_syntax(c)
    \/ \E c \in Calls : EnterLoop(c) /\ UNCHANGED callerVars
    \/ \E c \in Calls : EarlyReturn(c) /\ UNCHANGED callerVars
    \/ \E c \in Calls : RuleReturns(c) /\ UNCHANGED callerVars
    \/ \E c \in Calls : RuleRaises(c) /\ UNCHANGED callerVars
    \/ \E c \in Calls : Finish(c) /\ UNCHANGED callerVars

SpecMode == InitMode /\ [][NextMode]_vars

-----------------------------------------------------------------------------
(* main of mode_helper.py (lines 435-472) and the functions it runs *)

\* lines 16-17
REDSHIFT_DS_ID == 12345
SNOWFLAKE_DS_ID == 12345

\* how many times the server answers a poll with "not yet"
MaxPolls == 1

\* the token given on the command line
ReportToken == "r1"

\* the command lines: each option absent (None) or given with a token; one
\* option given, none, an empty token, and two options at once
CommandLines ==
    LET NoArgs == [clone_to_snowflake |-> None, backup_redshift |-> None,
                   update_inplace |-> None, backup_and_update |-> None]
    IN
    {NoArgs,
     [NoArgs EXCEPT !.clone_to_snowflake = Str(<<ReportToken>>)],
     [NoArgs EXCEPT !.backup_redshift = Str(<<ReportToken>>)],
     [NoArgs EXCEPT !.update_inplace = Str(<<ReportToken>>)],
     [NoArgs EXCEPT !.backup_and_update = Str(<<ReportToken>>)],
     [NoArgs EXCEPT !.update_inplace = Str(<<>>)],
     [NoArgs EXCEPT !.backup_redshift = Str(<<ReportToken>>),
                    !.update_inplace = Str(<<ReportToken>>)]}

\* line 466
confirmation == "update this report in-place"

\* what the operator may type at the prompt (or end the input: EOFError)
Answers ==
    {confirmation, "Update this report in-place", "update this report in-place ",
     "yes", "", "EOF"}

\* Report names, character by character: one of 53 characters, which is
\* cut when the longer of the two prefixes is put before it (line 220)
ReportNames == {[i \in 1..53 |-> "x"]}

\* f'Clone of {name}' (line 204)
CloneOf(name) == <<"C", "l", "o", "n", "e", " ", "o", "f", " ">> \o name

\* f"{prefix} {name}"[:64] (line 220)
Prefixed(prefix, name) ==
    LET full == prefix \o <<" ">> \o name
    IN  SubSeq(full, 1, IF Len(full) < 64 THEN Len(full) ELSE 64)

\* a query of a report
Query(ds, raw) == [data_source_id |-> ds, raw_query |-> raw]

\* the texts of the queries; "\\n" is a backslash followed by n in the text
QueryTexts ==
    [select |-> <<"select", " ", "1", ";">>,
     create |->
        <<"create", " ", "table", " ", "t", " ", "as", " ", "select", " ", "1">>,
     create_upper |->
        <<"CREATE", " ", "TABLE", " ", "t", " ", "AS", " ", "SELECT", " ", "1">>,
     insert |->
        <<"insert", "\n", " ", "into", " ", "t", " ", "select", " ", "1">>,
     drop |-> <<"drop", "\\n", "table", " ", "t">>,
     analyze |-> <<"analyze", " ", "t", ";">>]

\* the lists of queries the server may return for a report
QueryLists ==
    {<<>>,
     <<Query(777, QueryTexts.select)>>,
     <<Query(777, QueryTexts.drop)>>,
     <<Query(REDSHIFT_DS_ID, QueryTexts.select)>>,
     <<Query(REDSHIFT_DS_ID, QueryTexts.create)>>,
     <<Query(REDSHIFT_DS_ID, QueryTexts.create_upper)>>,
     <<Query(REDSHIFT_DS_ID, QueryTexts.drop)>>,
     <<Query(777, QueryTexts.create), Query(REDSHIFT_DS_ID, QueryTexts.analyze)>>,
     <<Query(REDSHIFT_DS_ID, QueryTexts.select), Query(REDSHIFT_DS_ID, QueryTexts.insert)>>}

\* line 142, each entry word by word
banned_queries ==
    <<<<"create", "table">>, <<"insert", "into">>, <<"drop", "table">>>>

\* lines 149-152: re.search(banned_query.replace(" ", r"\s+"),
\* query["raw_query"].replace(r"\n", " ")), with no flags
UsesBanned(query, banned_query) ==
    Search(Cat(<<Exact(banned_query[1]), Plus(WS), Exact(banned_query[2])>>),
           Replace(query.raw_query, <<"\\n">>, <<" ">>))

\* lines 145-155: the first banned query found, going through the queries in
\* order and, for each Redshift query, through banned_queries in order;
\* <<>> if there is none
RECURSIVE FirstBanned(_, _, _)
FirstBanned(queries, q, b) ==
    IF q > Len(queries) THEN <<>>
    ELSE IF queries[q].data_source_id # REDSHIFT_DS_ID \/ b > Len(banned_queries)
         THEN FirstBanned(queries, q + 1, 1)
         ELSE IF UsesBanned(queries[q], banned_queries[b])
              THEN banned_queries[b]
              ELSE FirstBanned(queries, q, b + 1)

\* line 144-147: has_redshift_queries after the loop
has_redshift_queries(queries) ==
    \E q \in 1..Len(queries) : queries[q].data_source_id = REDSHIFT_DS_ID

-----------------------------------------------------------------------------

(* The run of main *)

\* lines 31-39 of mode_api: the prefix of the path is fixed up.  A path is
\* a sequence of pieces, the first of which is its prefix.
ApiPath(path) ==
    LET p1 == IF Head(path) = "/<your-organization>"
              THEN <<"/api">> \o path ELSE path
    IN  IF Len(p1) >= 2 /\ p1[1] = "/api" /\ p1[2] = "/<your-organization>"
        THEN p1 ELSE <<"/api/<your-organization>">> \o p1

\* a request handed to the session (line 41)
Request(method, path, body) ==
    [method |-> method, path |-> ApiPath(path), body |-> body]

NoBody == [kind |-> "none"]

\* logger.info(msg) for each msg of msgs, in order
RECURSIVE Infos(_, _)
Infos(lg, msgs) ==
    IF msgs = <<>> THEN lg
    ELSE Infos(Emit(lg, Record("INFO", Str(Head(msgs)), <<>>)), Tail(msgs))

\* line 40: logger.info(f"Sending {method} to {path}")
Sending(method, path) == <<"Sending ", method, " to ">> \o ApiPath(path)

\* what a request can end with instead of a response: raise_for_status
\* raises HTTPError for a 4xx or 5xx status (line 43), and the session
\* raises ConnectionError when the server cannot be reached (line 41)
RequestErrors ==
    {[kind |-> "HTTPError", status |-> 500, msg |-> <<>>],
     [kind |-> "HTTPError", status |-> 503, msg |-> <<>>],
     [kind |-> "ConnectionError", status |-> 0, msg |-> <<>>]}

\* exception e, raised by the n-th request (0: by no request)
RaisedAt(e, n) == [kind |-> e.kind, status |-> e.status, msg |-> e.msg, at |-> n]

\* sys.exit(msg)
SystemExit(msg) == [kind |-> "SystemExit", status |-> 0, msg |-> msg]

\* the driver, which the steps of main outside update_query_sql_syntax
\* leave alone (they log)
driverVars == <<registry, input, pc, idx, sql, trace, ret, budget, raw_query>>

\* mode_helper.py is run with a command line; no request has been sent
InitMain ==
    /\ registry = parsers
    /\ log = <<>>
    /\ input = [c \in {1} |-> Unset]
    /\ pc = [c \in {1} |-> "done"]
    /\ idx = [c \in {1} |-> 1]
    /\ sql = [c \in {1} |-> Unset]
    /\ trace = [c \in {1} |-> <<>>]
    /\ ret = [c \in {1} |-> Unset]
    /\ budget = [c \in {1} |-> 0]
    /\ raw_query = [c \in {1} |-> Unset]
    /\ argv \in CommandLines
    /\ mpc = "main"
    /\ fn = ""
    /\ sent = <<>>
    /\ answer = None
    /\ exit = NoExit
    /\ srv_run = ""
    /\ loc = NoLocals

\* the process ends with exception e raised by the n-th request
Ends(e, n) ==
    /\ exit' = RaisedAt(e, n)
    /\ mpc' = "exit"

\* main returns
MainReturns ==
    /\ exit' = [NoExit EXCEPT !.kind = "returned"]
    /\ mpc' = "exit"

\* lines 452-465: the first option that is truthy selects the function
main ==
    /\ mpc = "main"
    /\ IF Truthy(argv.clone_to_snowflake)
       THEN /\ fn' = "do_clone_to_snowflake"
            /\ loc' = [loc EXCEPT !.token = argv.clone_to_snowflake.s[1],
                                  !.prefix = <<"[", "S", "N", "O", "W", "F", "L",
                                              "A", "K", "E", "]">>]
            /\ mpc' = "clone_report"
            /\ UNCHANGED exit
       ELSE IF Truthy(argv.backup_redshift)
       THEN /\ fn' = "do_backup_redshift"
            /\ loc' = [loc EXCEPT !.token = argv.backup_redshift.s[1],
                                  !.prefix = <<"[", "R", "E", "D", "S", "H", "I",
                                              "F", "T", "]">>]
            /\ mpc' = "clone_report"
            /\ UNCHANGED exit
       ELSE IF Truthy(argv.backup_and_update)
       THEN /\ fn' = "do_backup_redshift"
            /\ loc' = [loc EXCEPT !.token = argv.backup_and_update.s[1],
                                  !.prefix = <<"[", "R", "E", "D", "S", "H", "I",
                                              "F", "T", "]">>]
            /\ mpc' = "clone_report"
            /\ UNCHANGED exit
       ELSE IF Truthy(argv.update_inplace)
       THEN /\ loc' = [loc EXCEPT !.token = argv.update_inplace.s[1]]
            /\ mpc' = "input"
            /\ UNCHANGED <<fn, exit>>
       ELSE /\ MainReturns
            /\ UNCHANGED <<fn, loc>>
    /\ UNCHANGED <<argv, sent, answer, srv_run, log>>
    /\ UNCHANGED driverVars

\* confirm with the answer compared after answer.strip().lower()
confirm_Lenient ==
    /\ mpc = "input"
    /\ \E a \in Answers :
         /\ answer' = IF a = "EOF" THEN answer ELSE Str(<<a>>)
         /\ IF a = "EOF"
            THEN /\ Ends([kind |-> "EOFError", status |-> 0, msg |-> <<>>], 0)
                 /\ UNCHANGED fn
            ELSE IF a \notin {confirmation, "Update this report in-place",
                              "update this report in-place "}
            THEN /\ Ends(SystemExit(<<"Confirmation message not received, exiting">>), 0)
                 /\ UNCHANGED fn
            ELSE /\ fn' = "do_update_inplace"
                 /\ mpc' = "get_report"
                 /\ UNCHANGED exit
    /\ UNCHANGED <<argv, sent, srv_run, loc, log>>
    /\ UNCHANGED driverVars

\* lines 466-472: the operator is asked; any answer but the confirmation
\* ends the process, the confirmation starts do_update_inplace
confirm ==
    /\ mpc = "input"
    /\ \E a \in Answers :
         /\ answer' = IF a = "EOF" THEN answer ELSE Str(<<a>>)
         /\ IF a = "EOF"
            THEN /\ Ends([kind |-> "EOFError", status |-> 0, msg |-> <<>>], 0)
                 /\ UNCHANGED fn
            ELSE IF a # confirmation
            THEN /\ Ends(SystemExit(<<"Confirmation message not received, exiting">>), 0)
                 /\ UNCHANGED fn
            ELSE /\ fn' = "do_update_inplace"
                 /\ mpc' = "get_report"
                 /\ UNCHANGED exit
    /\ UNCHANGED <<argv, sent, srv_run, loc, log>>
    /\ UNCHANGED driverVars

-----------------------------------------------------------------------------

(* clone_report (lines 167-247) and validate_report (lines 138-164) *)

\* a report as the server returns it
Report(token, name) == [kind |-> "report", token |-> token, name |-> name]

\* line 168: original_report = mode_api("get", f"/reports/{report_token}")
clone_report ==
    /\ mpc = "clone_report"
    /\ sent' = Append(sent, Request("get", <<"/reports/", loc.token>>, NoBody))
    /\ log' = Infos(log, <<Sending("get", <<"/reports/", loc.token>>)>>)
    /\ \/ \E name \in ReportNames :
            /\ loc' = [loc EXCEPT !.original = Report(loc.token, name),
                                  !.cloned = None]
            /\ mpc' = "validate_report"
            /\ UNCHANGED exit
       \/ \E e \in RequestErrors :
            /\ Ends(e, Len(sent) + 1)
            /\ UNCHANGED loc
    /\ UNCHANGED <<argv, fn, answer, srv_run>>
    /\ UNCHANGED driverVars

\* lines 139-158: the queries of the report are fetched; a banned query in
\* a Redshift query, or no Redshift query at all, ends the process
validate_report ==
    /\ mpc = "validate_report"
    /\ sent' = Append(sent, Request("get", <<"/reports/", loc.token, "/queries">>,
                                    NoBody))
    /\ log' = Infos(log, <<<<"==== validating report ", loc.token>>,
                           Sending("get", <<"/reports/", loc.token, "/queries">>)>>)
    /\ \/ \E queries \in QueryLists :
            /\ loc' = [loc EXCEPT !.report_queries = queries]
            /\ IF FirstBanned(queries, 1, 1) # <<>>
               THEN Ends(SystemExit(<<"banned query">>
                                        \o FirstBanned(queries, 1, 1)), 0)
               ELSE IF ~has_redshift_queries(queries)
               THEN Ends(SystemExit(<<"does not use Redshift">>), 0)
               ELSE /\ mpc' = "report_collection"
                    /\ UNCHANGED exit
       \/ \E e \in RequestErrors :
            /\ Ends(e, Len(sent) + 1)
            /\ UNCHANGED loc
    /\ UNCHANGED <<argv, fn, answer, srv_run>>
    /\ UNCHANGED driverVars

\* lines 160-164: a report of a private collection ends the process;
\* otherwise validate_report returns and its locals are gone
report_collection ==
    /\ mpc = "report_collection"
    /\ sent' = Append(sent, Request("get", <<"/spaces/", "sp1">>, NoBody))
    /\ log' = Infos(log, <<Sending("get", <<"/spaces/", "sp1">>)>>)
    /\ \/ \E space_type \in {"private", "custom"} :
            IF space_type = "private"
            THEN /\ loc' = [loc EXCEPT !.space_type = space_type]
                 /\ Ends(SystemExit(<<"private collection">>), 0)
            ELSE /\ loc' = [loc EXCEPT !.report_queries = <<>>]
                 /\ mpc' = "clone"
                 /\ UNCHANGED exit
       \/ \E e \in RequestErrors :
            /\ Ends(e, Len(sent) + 1)
            /\ UNCHANGED loc
    /\ UNCHANGED <<argv, fn, answer, srv_run>>
    /\ UNCHANGED driverVars

\* lines 171-185 and 210-214: the clone request.  Its response is the clone;
\* an HTTPError 503 starts the look-up by name; any other HTTPError is
\* raised again; any other exception is not caught.
clone ==
    /\ mpc = "clone"
    /\ sent' = Append(sent, Request("post", <<"/reports/", loc.token, "/clone">>,
                                    NoBody))
    /\ \/ /\ loc' = [loc EXCEPT
                       !.cloned = Report("c1", CloneOf(loc.original.name))]
          /\ log' = Infos(log, <<<<"==== cloning report ", loc.token>>,
                        Sending("post", <<"/reports/", loc.token, "/clone">>)>>)
          /\ mpc' = "patch"
          /\ UNCHANGED exit
       \/ \E e \in RequestErrors :
            IF e.kind = "HTTPError" /\ e.status = 503
            THEN /\ loc' = [loc EXCEPT !.err = RaisedAt(e, Len(sent) + 1)]
                 /\ log' = Infos(log, <<<<"==== cloning report ", loc.token>>,
                        Sending("post", <<"/reports/", loc.token, "/clone">>),
                        <<"Received a 503 when cloning report, attempting to look up by name instead...">>
                        >>)
                 /\ mpc' = "spaces"
                 /\ UNCHANGED exit
            ELSE IF e.kind = "HTTPError"
            THEN /\ log' = Infos(log, <<<<"==== cloning report ", loc.token>>,
                        Sending("post", <<"/reports/", loc.token, "/clone">>),
                        <<"Unable to look up cloned report by name, error when cloning was:">>
                        >>)
                 /\ Ends(e, Len(sent) + 1)
                 /\ UNCHANGED loc
            ELSE /\ log' = Infos(log, <<<<"==== cloning report ", loc.token>>,
                        Sending("post", <<"/reports/", loc.token, "/clone">>)>>)
                 /\ Ends(e, Len(sent) + 1)
                 /\ UNCHANGED loc
    /\ UNCHANGED <<argv, fn, answer, srv_run>>
    /\ UNCHANGED driverVars

\* line 187: spaces = mode_api("get", "/spaces"); the server returns a list
\* of spaces, given here by their names
spaces ==
    /\ mpc = "spaces"
    /\ sent' = Append(sent, Request("get", <<"/spaces">>, NoBody))
    /\ log' = Infos(log, <<Sending("get", <<"/spaces">>)>>)
    /\ \/ \E sp \in {<<"Team">>, <<"Team", "Personal">>,
                     <<"Personal", "Team">>} :
            /\ loc' = [loc EXCEPT !.spaces = sp, !.sk = 1, !.nulls = 0]
            /\ mpc' = "for_space"
            /\ UNCHANGED exit
       \/ \E e \in RequestErrors :
            /\ Ends(e, Len(sent) + 1)
            /\ UNCHANGED loc
    /\ UNCHANGED <<argv, fn, answer, srv_run>>
    /\ UNCHANGED driverVars

\* lines 188-189 and 210-216: the next space of the list.  A space that is
\* not named Personal is passed over.  At the end of the list the error of
\* the clone request is raised again if no report was adopted.
for_space ==
    /\ mpc = "for_space"
    /\ IF loc.sk > Len(loc.spaces)
       THEN IF loc.cloned = None
            THEN /\ log' = Infos(log,
                        <<<<"Unable to look up cloned report by name, error when cloning was:">>
                        >>)
                 /\ exit' = loc.err
                 /\ mpc' = "exit"
                 /\ UNCHANGED loc
            ELSE /\ mpc' = "patch"
                 /\ UNCHANGED <<log, exit, loc>>
       ELSE IF loc.spaces[loc.sk] # "Personal"
       THEN /\ loc' = [loc EXCEPT !.sk = @ + 1]
            /\ UNCHANGED <<log, exit, mpc>>
       ELSE /\ mpc' = "personal_reports"
            /\ UNCHANGED <<log, exit, loc>>
    /\ UNCHANGED <<argv, fn, answer, srv_run, sent>>
    /\ UNCHANGED driverVars

\* personal_reports with the newest named report taken as the clone
\* whatever its name
personal_reports_AnyName ==
    /\ mpc = "personal_reports"
    /\ sent' = Append(sent, Request("get",
                   <<"/<your-organization>", "/spaces/", "personal", "/reports",
                     "?order=desc&order_by=created_at">>, NoBody))
    /\ log' = Infos(log, <<Sending("get",
                   <<"/<your-organization>", "/spaces/", "personal", "/reports",
                     "?order=desc&order_by=created_at">>)>>)
    /\ \/ \E name \in {None, Str(CloneOf(loc.original.name)),
                       Str(CloneOf(<<"Q", "2">>))} :
            /\ name = None => loc.nulls < MaxPolls
            /\ loc' = IF name = None THEN [loc EXCEPT !.nulls = @ + 1]
                      ELSE [loc EXCEPT !.cloned = Report("p1", name.s),
                                       !.sk = @ + 1, !.nulls = 0]
            /\ mpc' = IF name = None THEN "personal_reports" ELSE "for_space"
            /\ UNCHANGED exit
       \/ /\ Ends([kind |-> "IndexError", status |-> 0, msg |-> <<>>], 0)
          /\ UNCHANGED loc
       \/ \E e \in RequestErrors :
            /\ Ends(e, Len(sent) + 1)
            /\ UNCHANGED loc
    /\ UNCHANGED <<argv, fn, answer, srv_run>>
    /\ UNCHANGED driverVars

\* lines 191-208: one round of the while loop on the Personal space.  The
\* name of its newest report is not set yet (None), the clone's, or that
\* of the clone of another report.
personal_reports ==
    /\ mpc = "personal_reports"
    /\ sent' = Append(sent, Request("get",
                   <<"/<your-organization>", "/spaces/", "personal", "/reports",
                     "?order=desc&order_by=created_at">>, NoBody))
    /\ log' = Infos(log, <<Sending("get",
                   <<"/<your-organization>", "/spaces/", "personal", "/reports",
                     "?order=desc&order_by=created_at">>)>>)
    /\ \/ \E name \in {None, Str(CloneOf(loc.original.name)),
                       Str(CloneOf(<<"Q", "2">>))} :
            /\ name = None => loc.nulls < MaxPolls
            /\ loc' = IF name = None THEN [loc EXCEPT !.nulls = @ + 1]
                      ELSE IF name.s = CloneOf(loc.original.name)
                      THEN [loc EXCEPT !.cloned = Report("p1", name.s),
                                       !.sk = @ + 1, !.nulls = 0]
                      ELSE [loc EXCEPT !.sk = @ + 1, !.nulls = 0]
            /\ mpc' = IF name = None THEN "personal_reports" ELSE "for_space"
            /\ UNCHANGED exit
       \/ \* personal_reports["reports"] is empty (line 198)
          /\ Ends([kind |-> "IndexError", status |-> 0, msg |-> <<>>], 0)
          /\ UNCHANGED loc
       \/ \E e \in RequestErrors :
            /\ Ends(e, Len(sent) + 1)
            /\ UNCHANGED loc
    /\ UNCHANGED <<argv, fn, answer, srv_run>>
    /\ UNCHANGED driverVars

-----------------------------------------------------------------------------

\* lines 216-227: the clone is renamed and moved to the collection of the
\* original
patch ==
    /\ mpc = "patch"
    /\ sent' = Append(sent,
                 Request("patch", <<"/reports/", loc.cloned.token>>,
                         [kind |-> "report",
                          name |-> Prefixed(loc.prefix, loc.original.name),
                          space_token |-> "sp1"]))
    /\ log' = Infos(log, <<Sending("patch", <<"/reports/", loc.cloned.token>>)>>)
    /\ \/ /\ mpc' = "update_settings"
          /\ UNCHANGED exit
       \/ \E e \in RequestErrors : Ends(e, Len(sent) + 1)
    /\ UNCHANGED <<argv, fn, answer, srv_run, loc>>
    /\ UNCHANGED driverVars

\* lines 229-247: manual runs are allowed; clone_report returns the token
\* of the clone to do_clone_to_snowflake or do_backup_redshift
update_settings ==
    /\ mpc = "update_settings"
    /\ sent' = Append(sent,
                 Request("patch", <<"/reports/", loc.cloned.token, "/settings">>,
                         [kind |-> "settings", manual_run_disabled |-> FALSE]))
    /\ log' = Infos(log, <<Sending("patch", <<"/reports/", loc.cloned.token,
                                              "/settings">>)>>)
    /\ \/ /\ mpc' = IF fn = "do_clone_to_snowflake" THEN "move_to_snowflake"
                    ELSE "backed_up"
          /\ loc' = [loc EXCEPT !.target = loc.cloned.token]
          /\ UNCHANGED exit
       \/ \E e \in RequestErrors :
            /\ Ends(e, Len(sent) + 1)
            /\ UNCHANGED loc
    /\ UNCHANGED <<argv, fn, answer, srv_run>>
    /\ UNCHANGED driverVars

\* lines 416-418 and 462-463: do_backup_redshift logs where the backup is
\* and returns to main, which goes on with do_update_inplace under
\* --backup-and-update
do_backup_redshift ==
    /\ mpc = "backed_up"
    /\ log' = Infos(log, <<<<"View the backed up report at ", loc.target>>>>)
    /\ IF Truthy(argv.backup_redshift)
       THEN /\ MainReturns
            /\ UNCHANGED fn
       ELSE /\ fn' = "do_update_inplace"
            /\ mpc' = "get_report"
            /\ UNCHANGED exit
    /\ UNCHANGED <<argv, answer, srv_run, sent, loc>>
    /\ UNCHANGED driverVars

\* line 422: report = mode_api("get", f"/reports/{report_token}")
do_update_inplace ==
    /\ mpc = "get_report"
    /\ sent' = Append(sent, Request("get", <<"/reports/", loc.token>>, NoBody))
    /\ log' = Infos(log, <<Sending("get", <<"/reports/", loc.token>>)>>)
    /\ \/ \E name \in ReportNames :
            /\ loc' = [loc EXCEPT !.report_name = name, !.target = loc.token]
            /\ mpc' = "sync_pre"
            /\ UNCHANGED exit
       \/ \E e \in RequestErrors :
            /\ Ends(e, Len(sent) + 1)
            /\ UNCHANGED loc
    /\ UNCHANGED <<argv, fn, answer, srv_run>>
    /\ UNCHANGED driverVars

\* sync_to_github (lines 390-395): the request, and what is logged with it
sync_to_github(token, name, reason) ==
    [request |->
        Request("patch", <<"/reports/", token, "/sync_to_github">>,
                [kind |-> "sync", commit_message |-> <<"sync '">> \o name
                                                        \o <<"' ", reason>>]),
     logs |->
        <<<<"==== syncing report ", token, " to github (", reason, ")">>,
          Sending("patch", <<"/reports/", token, "/sync_to_github">>)>>]

\* line 423: sync_to_github(report_token, report["name"], "pre-migration")
sync_pre_migration ==
    /\ mpc = "sync_pre"
    /\ sent' = Append(sent, sync_to_github(loc.token, loc.report_name,
                                           "pre-migration").request)
    /\ log' = Infos(log, sync_to_github(loc.token, loc.report_name,
                                        "pre-migration").logs)
    /\ \/ /\ mpc' = "move_to_snowflake"
          /\ UNCHANGED exit
       \/ \E e \in RequestErrors : Ends(e, Len(sent) + 1)
    /\ UNCHANGED <<argv, fn, answer, srv_run, loc>>
    /\ UNCHANGED driverVars

\* lines 428-432: sync_to_github(..., "post-migration"); do_update_inplace
\* logs where the report is and main returns
sync_post_migration ==
    /\ mpc = "sync_post"
    /\ sent' = Append(sent, sync_to_github(loc.token, loc.report_name,
                                           "post-migration").request)
    /\ \/ /\ log' = Infos(log, sync_to_github(loc.token, loc.report_name,
                                        "post-migration").logs
                                 \o <<<<"View the updated report at ", loc.token>>>>)
          /\ MainReturns
       \/ /\ log' = Infos(log, sync_to_github(loc.token, loc.report_name,
                                        "post-migration").logs)
          /\ \E e \in RequestErrors : Ends(e, Len(sent) + 1)
    /\ UNCHANGED <<argv, fn, answer, srv_run, loc>>
    /\ UNCHANGED driverVars

\* lines 402-411: do_clone_to_snowflake logs the outcome and main returns
clone_complete ==
    /\ mpc = "clone_complete"
    /\ log' = Infos(log, <<<<"Clone complete!">>,
                           <<"Original report: ", loc.token>>,
                           <<"Cloned report: ", loc.target>>,
                           <<"Underlying snowflake tables parity summary: ",
                             loc.target>>>>)
    /\ MainReturns
    /\ UNCHANGED <<argv, fn, answer, srv_run, sent, loc>>
    /\ UNCHANGED driverVars

-----------------------------------------------------------------------------

(* move_to_snowflake (lines 356-369) and the functions it calls *)

\* lines 357-358 and 343: the filters of the report are fetched
move_to_snowflake ==
    /\ mpc = "move_to_snowflake"
    /\ sent' = Append(sent, Request("get", <<"/reports/", loc.target, "/filters">>,
                                    NoBody))
    /\ log' = Infos(log, <<<<"==== moving ", loc.target, " to snowflake">>,
                           Sending("get", <<"/reports/", loc.target, "/filters">>)>>)
    /\ \/ \E n \in {0, 1} :
            /\ loc' = [loc EXCEPT !.items = n]
            /\ mpc' = IF n > 0 THEN "report_filter" ELSE "report_queries"
            /\ UNCHANGED exit
       \/ \E e \in RequestErrors :
            /\ Ends(e, Len(sent) + 1)
            /\ UNCHANGED loc
    /\ UNCHANGED <<argv, fn, answer, srv_run>>
    /\ UNCHANGED driverVars

\* lines 344-353: the name and the formula of a filter are put in upper case
update_filter_capitalization ==
    /\ mpc = "report_filter"
    /\ sent' = Append(sent, Request("patch", <<"/reports/", loc.target,
                                               "/filters/", "f">>,
                                    [kind |-> "report_filter"]))
    /\ log' = Infos(log, <<Sending("patch", <<"/reports/", loc.target,
                                              "/filters/", "f">>)>>)
    /\ \/ /\ loc' = [loc EXCEPT !.items = @ - 1]
          /\ mpc' = IF loc.items > 1 THEN "report_filter" ELSE "report_queries"
          /\ UNCHANGED exit
       \/ \E e \in RequestErrors :
            /\ Ends(e, Len(sent) + 1)
            /\ UNCHANGED loc
    /\ UNCHANGED <<argv, fn, answer, srv_run>>
    /\ UNCHANGED driverVars

\* line 360: report_queries = mode_api("get", f"/reports/{report_token}/queries")
report_queries ==
    /\ mpc = "report_queries"
    /\ sent' = Append(sent, Request("get", <<"/reports/", loc.target, "/queries">>,
                                    NoBody))
    /\ log' = Infos(log, <<Sending("get", <<"/reports/", loc.target, "/queries">>)>>)
    /\ \/ \E qs \in {<<>>,
                     <<Query(REDSHIFT_DS_ID, QueryTexts.analyze)>>,
                     <<Query(777, QueryTexts.select),
                       Query(REDSHIFT_DS_ID, QueryTexts.create_upper)>>} :
            /\ loc' = [loc EXCEPT !.queries = qs, !.qk = 1]
            /\ mpc' = "for_query"
            /\ UNCHANGED exit
       \/ \E e \in RequestErrors :
            /\ Ends(e, Len(sent) + 1)
            /\ UNCHANGED loc
    /\ UNCHANGED <<argv, fn, answer, srv_run>>
    /\ UNCHANGED driverVars

\* lines 361-362: the next query; one that is not on Redshift is passed
\* over; at the end of the list move_to_snowflake returns and run_report
\* is called
for_query ==
    /\ mpc = "for_query"
    /\ IF loc.qk > Len(loc.queries)
       THEN /\ mpc' = "run_report"
            /\ UNCHANGED loc
       ELSE IF loc.queries[loc.qk].data_source_id # REDSHIFT_DS_ID
       THEN /\ loc' = [loc EXCEPT !.qk = @ + 1]
            /\ UNCHANGED mpc
       ELSE /\ mpc' = "query_runs"
            /\ UNCHANGED loc
    /\ UNCHANGED <<argv, fn, answer, srv_run, sent, exit, log>>
    /\ UNCHANGED driverVars

\* One request of update_chart_capitalization (lines 305-339), sent at
\* `at`: a request that fetches a list finds some number of items, one that
\* saves an item leaves one item less; with items left the next step is
\* `again`, else `next`.  An exception is caught by move_to_snowflake,
\* which goes on with update_datasource_and_sql_syntax.
Capitalize(at, method, path, fetch, again, next) ==
    /\ mpc = at
    /\ sent' = Append(sent, Request(method, path, NoBody))
    /\ \/ /\ log' = Infos(log, <<Sending(method, path)>>)
          /\ IF fetch
             THEN \E n \in {0, 1} :
                    /\ loc' = [loc EXCEPT !.items = n]
                    /\ mpc' = IF n > 0 THEN again ELSE next
             ELSE /\ loc' = [loc EXCEPT !.items = @ - 1]
                  /\ mpc' = IF loc.items > 1 THEN again ELSE next
       \/ /\ log' = Infos(log, <<Sending(method, path),
                 <<"Cannot update chart capitalization, is there a table view in the report?">>>>)
          /\ mpc' = "update_datasource"
          /\ UNCHANGED loc
    /\ UNCHANGED <<argv, fn, answer, srv_run, exit>>
    /\ UNCHANGED driverVars

\* lines 307-308: the runs of the query; runs["query_runs"][0] raises
\* IndexError when there is none
query_runs ==
    /\ mpc = "query_runs"
    /\ sent' = Append(sent, Request("get", <<"/queries/", "q", "/runs">>, NoBody))
    /\ \/ /\ log' = Infos(log, <<Sending("get", <<"/queries/", "q", "/runs">>)>>)
          /\ mpc' = "view_attrs"
       \/ /\ log' = Infos(log, <<Sending("get", <<"/queries/", "q", "/runs">>),
                                 <<"Cannot update chart capitalization, is there a table view in the report?">>>>)
          /\ mpc' = "update_datasource"
    /\ UNCHANGED <<argv, fn, answer, srv_run, exit, loc>>
    /\ UNCHANGED driverVars

\* lines 310-313
view_attrs ==
    Capitalize("view_attrs", "get", <<"/runs/", "qr", "/view/attrs">>, TRUE,
               "patch_attr", "charts")

\* lines 314-322
patch_attr ==
    Capitalize("patch_attr", "patch", <<"/runs/", "qr", "/view/attrs/", "a">>,
               FALSE, "patch_attr", "charts")

\* line 324
charts ==
    Capitalize("charts", "get", <<"/queries/", "q", "/charts">>, TRUE,
               "edit_chart", "update_datasource")

\* lines 325-339
edit_chart ==
    Capitalize("edit_chart", "patch", <<"/charts/", "ch">>, FALSE,
               "edit_chart", "update_datasource")

\* lines 290-295: update_datasource_and_sql_syntax calls
\* update_query_sql_syntax on the text of the query
update_datasource_and_sql_syntax ==
    /\ mpc = "update_datasource"
    /\ raw_query' = [c \in {1} |-> Str(loc.queries[loc.qk].raw_query)]
    /\ pc' = [c \in {1} |-> "caller"]
    /\ input' = [c \in {1} |-> Unset]
    /\ sql' = [c \in {1} |-> Unset]
    /\ idx' = [c \in {1} |-> 1]
    /\ trace' = [c \in {1} |-> <<>>]
    /\ ret' = [c \in {1} |-> Unset]
    /\ mpc' = "update_query_sql_syntax"
    /\ UNCHANGED <<registry, budget, log>>
    /\ UNCHANGED <<argv, fn, answer, srv_run, sent, exit, loc>>

\* lines 298-302: the query is saved with the data source of Snowflake and
\* the text update_query_sql_syntax returned
edit_query ==
    /\ mpc = "update_query_sql_syntax"
    /\ pc[1] = "done"
    /\ sent' = Append(sent,
                 Request("patch", <<"/reports/", loc.target, "/queries/", "q">>,
                         [kind |-> "query", data_source_id |-> SNOWFLAKE_DS_ID,
                          raw_query |-> ret[1]]))
    /\ log' = Infos(log, <<Sending("patch", <<"/reports/", loc.target,
                                              "/queries/", "q">>)>>)
    /\ \/ /\ loc' = [loc EXCEPT !.qk = @ + 1]
          /\ mpc' = "for_query"
          /\ UNCHANGED exit
       \/ \E e \in RequestErrors :
            /\ Ends(e, Len(sent) + 1)
            /\ UNCHANGED loc
    /\ UNCHANGED <<argv, fn, answer, srv_run>>
    /\ UNCHANGED driverVars

-----------------------------------------------------------------------------

(* run_report (lines 372-387) *)

\* the states of a run in which run_report stops polling (line 383)
FinalStates == {"succeeded", "cancelled", "failed"}

\* the states a run goes through on the server
RunFollows ==
    [pending |-> {"enqueued", "cancelled"},
     enqueued |-> {"succeeded", "failed", "cancelled"},
     succeeded |-> {}, failed |-> {}, cancelled |-> {}]

\* lines 373-375: the run is started
run_report ==
    /\ mpc = "run_report"
    /\ sent' = Append(sent, Request("post", <<"/reports/", loc.target, "/runs">>,
                                    NoBody))
    /\ \/ /\ log' = Infos(log, <<<<"==== running report ", loc.target>>,
                        Sending("post", <<"/reports/", loc.target, "/runs">>),
                        <<"waiting for report run to finish...">>>>)
          /\ srv_run' = "pending"
          /\ loc' = [loc EXCEPT !.polls = 0, !.run_state = ""]
          /\ mpc' = "poll"
          /\ UNCHANGED exit
       \/ /\ log' = Infos(log, <<<<"==== running report ", loc.target>>,
                        Sending("post", <<"/reports/", loc.target, "/runs">>)>>)
          /\ \E e \in RequestErrors : Ends(e, Len(sent) + 1)
          /\ UNCHANGED <<srv_run, loc>>
    /\ UNCHANGED <<argv, fn, answer>>
    /\ UNCHANGED driverVars

\* poll with only "succeeded" ending the loop
poll_OnlySucceeded ==
    /\ mpc = "poll"
    /\ srv_run # "succeeded" => loc.polls < MaxPolls
    /\ sent' = Append(sent, Request("get", <<"/reports/", loc.target, "/runs/",
                                             "run1">>, NoBody))
    /\ \/ /\ loc' = [loc EXCEPT !.run_state = srv_run, !.polls = @ + 1]
          /\ IF srv_run = "succeeded"
             THEN /\ log' = Infos(log,
                              <<Sending("get", <<"/reports/", loc.target, "/runs/",
                                                 "run1">>),
                                <<"report run ", srv_run, "!">>>>)
                  /\ mpc' = IF fn = "do_clone_to_snowflake" THEN "clone_complete"
                            ELSE "sync_post"
             ELSE /\ log' = Infos(log,
                              <<Sending("get", <<"/reports/", loc.target, "/runs/",
                                                 "run1">>),
                                <<"... ", srv_run>>>>)
                  /\ UNCHANGED mpc
          /\ UNCHANGED exit
       \/ /\ log' = Infos(log, <<Sending("get", <<"/reports/", loc.target,
                                                  "/runs/", "run1">>)>>)
          /\ \E e \in RequestErrors : Ends(e, Len(sent) + 1)
          /\ UNCHANGED loc
    /\ UNCHANGED <<argv, fn, answer, srv_run>>
    /\ UNCHANGED driverVars

\* lines 377-387: one round of the while loop: the state of the run is
\* fetched; in a final state run_report returns to its caller, in any other
\* state it goes round again
poll ==
    /\ mpc = "poll"
    /\ srv_run \notin FinalStates => loc.polls < MaxPolls
    /\ sent' = Append(sent, Request("get", <<"/reports/", loc.target, "/runs/",
                                             "run1">>, NoBody))
    /\ \/ /\ loc' = [loc EXCEPT !.run_state = srv_run, !.polls = @ + 1]
          /\ IF srv_run \in {"succeeded", "cancelled", "failed"}
             THEN /\ log' = Infos(log,
                              <<Sending("get", <<"/reports/", loc.target, "/runs/",
                                                 "run1">>),
                                <<"report run ", srv_run, "!">>>>)
                  /\ mpc' = IF fn = "do_clone_to_snowflake" THEN "clone_complete"
                            ELSE "sync_post"
             ELSE /\ log' = Infos(log,
                              <<Sending("get", <<"/reports/", loc.target, "/runs/",
                                                 "run1">>),
                                <<"... ", srv_run>>>>)
                  /\ UNCHANGED mpc
          /\ UNCHANGED exit
       \/ /\ log' = Infos(log, <<Sending("get", <<"/reports/", loc.target,
                                                  "/runs/", "run1">>)>>)
          /\ \E e \in RequestErrors : Ends(e, Len(sent) + 1)
          /\ UNCHANGED loc
    /\ UNCHANGED <<argv, fn, answer, srv_run>>
    /\ UNCHANGED driverVars

\* the server: the run goes on to its next state while run_report waits
RunProceeds ==
    /\ mpc = "poll"
    /\ \E st \in RunFollows[srv_run] : srv_run' = st
    /\ UNCHANGED <<argv, mpc, fn, sent, answer, exit, loc, log>>
    /\ UNCHANGED driverVars

\* In a run of main the text update_query_sql_syntax prepares is never
\* empty and rules raise only because of their argument, which is a str.
NextMain ==
    \/ main
    \/ confirm
    \/ clone_report
    \/ validate_report
    \/ report_collection
    \/ clone
    \/ spaces
    \/ for_space
    \/ personal_reports
    \/ patch
    \/ update_settings
    \/ do_backup_redshift
    \/ do_update_inplace
    \/ sync_pre_migration
    \/ move_to_snowflake
    \/ update_filter_capitalization
    \/ report_queries
    \/ for_query
    \/ query_runs
    \/ view_attrs
    \/ patch_attr
    \/ charts
    \/ edit_chart
    \/ update_datasource_and_sql_syntax
    \/ update_query_sql_syntax(1)
    \/ EnterLoop(1) /\ UNCHANGED callerVars
    \/ EarlyReturn(1) /\ UNCHANGED callerVars
    \/ RuleReturns(1) /\ UNCHANGED callerVars
    \/ Finish(1) /\ UNCHANGED callerVars
    \/ edit_query
    \/ run_report
    \/ poll
    \/ RunProceeds
    \/ sync_post_migration
    \/ clone_complete

\* run_report sleeps ten seconds and polls again (lines 377-381): a poll
\* that can be made is made
SpecMain == InitMain /\ [][NextMain]_vars /\ WF_vars(poll)

-----------------------------------------------------------------------------

(* Properties of the driver *)

NumRules == Len(parsers)

\* call c was given a non-empty str
TextCall(c) == input[c].kind = "str" /\ input[c].s # <<>>

\* call c has ended
Done(c) == pc[c] = "done"

\* call c has ended without returning a value: an exception reached its
\* caller
Propagated(c) == Done(c) /\ ret[c] = Unset

\* the positions of the history of call c at which a rule raised
FailedAt(c) == {k \in 1..Len(trace[c]) : ~trace[c][k].ok}

\* the text is empty after the k-th rule call of call c
EmptyAfter(c, k) == trace[c][k].after = Str(<<>>)

\* the rule calls of call c follow the registry: the k-th call is of the k-th
\* rule, on the text the (k-1)-th left
InRegistryOrder(c) ==
    \A k \in 1..Len(trace[c]) :
        /\ k <= NumRules
        /\ trace[c][k].rule = parsers[k]
        /\ trace[c][k].before = (IF k = 1 THEN input[c] ELSE trace[c][k - 1].after)

\* C1 as stated: a rule that raises is caught, the text stays as it was
\* before the call, EVERY later rule of the registry is still called, and
\* the call returns a text.
C1_EveryLaterRuleInvoked ==
    \A c \in Calls :
        TextCall(c) /\ Done(c) /\ FailedAt(c) # {} =>
            /\ \A k \in FailedAt(c) : trace[c][k].after = trace[c][k].before
            /\ InRegistryOrder(c)
            /\ Len(trace[c]) = NumRules
            /\ ret[c].kind = "str"

\* C1 (amended): for a non-empty str input, a rule that raises is caught and
\* the text stays exactly as it was before the call; the later rules are
\* called in registry order, the next one on that text, up to the end of the
\* registry or to the first rule that leaves the text empty; the call
\* returns a text and no exception reaches the caller.
C1_FailureIsolation ==
    \A c \in Calls :
        TextCall(c) =>
            /\ \A k \in FailedAt(c) :
                 /\ trace[c][k].after = trace[c][k].before
                 /\ k = Len(trace[c]) => sql[c] = trace[c][k].before
            /\ InRegistryOrder(c)
            /\ ~Propagated(c)
            /\ Done(c) =>
                 /\ ret[c].kind = "str"
                 /\ ret[c] = sql[c]
                 /\ \/ Len(trace[c]) = NumRules
                    \/ /\ trace[c] # <<>>
                       /\ trace[c][Len(trace[c])].ok
                       /\ EmptyAfter(c, Len(trace[c]))

\* a call on a text has ended after its first rule raised, and every rule
\* of the registry was called
C1_Witness ==
    \E c \in Calls :
        /\ TextCall(c) /\ Done(c)
        /\ 1 \in FailedAt(c)
        /\ Len(trace[c]) = NumRules
        /\ ret[c].kind = "str"

\* C2: for the empty string and for None the call returns its argument and
\* calls no rule.
C2_EmptyInputUnchanged ==
    \A c \in Calls :
        input[c] \in {None, Str(<<>>)} =>
            /\ trace[c] = <<>>
            /\ pc[c] # "loop"
            /\ Done(c) => ret[c] = input[c]

\* a call on the empty string has returned
C2_Witness ==
    \E c \in Calls : input[c] = Str(<<>>) /\ Done(c) /\ ret[c] = Str(<<>>)

\* The sixteen rules composed in the order C3 lists them, innermost first:
\* t1 is parse_encoding(s), t2 is parse_dist_sort(t1), and so on; the value is
\* parse_convert_date_trunc_weeks(t15).
Composition(s) ==
    CHOOSE t16 \in
      {parse_convert_date_trunc_weeks(t15) : t15 \in
      {parse_convert_timezone_pacific(t14) : t14 \in
      {parse_convert_timezone_utc(t13) : t13 \in
      {parse_wlm_query_slot_count(t12) : t12 \in
      {parse_tmp(t11) : t11 \in
      {parse_atrt(t10) : t10 \in
      {parse_ctas(t9) : t9 \in
      {parse_analyze(t8) : t8 \in
      {parse_search_path(t7) : t7 \in
      {parse_swap_methods(t6) : t6 \in
      {parse_trailing_whitespace(t5) : t5 \in
      {parse_varchar(t4) : t4 \in
      {parse_int(t3) : t3 \in
      {parse_bool(t2) : t2 \in
      {parse_dist_sort(t1) : t1 \in
      {parse_encoding(s)}}}}}}}}}}}}}}}} : TRUE

\* call c has ended, no rule raised and no text between two rules was empty
CleanRun(c) ==
    /\ TextCall(c) /\ Done(c)
    /\ FailedAt(c) = {}
    /\ \A k \in 1..Len(trace[c]) : k < NumRules => ~EmptyAfter(c, k)

\* C3: when no rule fails and no intermediate text is empty, the value
\* returned is the composition of the 16 rules, each called exactly once, in
\* the order parse_encoding, parse_dist_sort, parse_bool, parse_int,
\* parse_varchar, parse_trailing_whitespace, parse_swap_methods,
\* parse_search_path, parse_analyze, parse_ctas, parse_atrt, parse_tmp,
\* parse_wlm_query_slot_count, parse_convert_timezone_utc,
\* parse_convert_timezone_pacific, parse_convert_date_trunc_weeks, each on
\* the output of the one before.
C3_CompositionInOrder ==
    \A c \in Calls :
        CleanRun(c) =>
            /\ [k \in 1..Len(trace[c]) |-> trace[c][k].rule] =
                 <<"parse_encoding", "parse_dist_sort", "parse_bool",
                   "parse_int", "parse_varchar", "parse_trailing_whitespace",
                   "parse_swap_methods", "parse_search_path", "parse_analyze",
                   "parse_ctas", "parse_atrt", "parse_tmp",
                   "parse_wlm_query_slot_count", "parse_convert_timezone_utc",
                   "parse_convert_timezone_pacific",
                   "parse_convert_date_trunc_weeks">>
            /\ \A k \in 2..Len(trace[c]) :
                 trace[c][k].before = trace[c][k - 1].after
            /\ ret[c] = Str(Composition(input[c].s))

\* a clean run has ended whose result differs from its input and in which
\* both a rule before the whitespace clean-up and one after it changed the
\* text
C3_Witness ==
    \E c \in Calls :
        /\ CleanRun(c)
        /\ ret[c] # input[c]
        /\ \E k \in 1..5 : trace[c][k].after # trace[c][k].before
        /\ \E k \in 7..NumRules : trace[c][k].after # trace[c][k].before

\* C4: once the text is empty after a rule has run, no later rule is called
\* and the call returns the empty text.
C4_EarlyStopOnEmpty ==
    \A c \in Calls :
        \A k \in 1..Len(trace[c]) :
            EmptyAfter(c, k) =>
                /\ k = Len(trace[c])
                /\ sql[c] = Str(<<>>)
                /\ Done(c) => ret[c] = Str(<<>>)

\* a call has returned the empty text after a rule other than the last left
\* the text empty
C4_Witness ==
    \E c \in Calls :
        /\ Done(c) /\ ret[c] = Str(<<>>)
        /\ trace[c] # <<>>
        /\ Len(trace[c]) < NumRules
        /\ EmptyAfter(c, Len(trace[c]))

\* C5 as stated: for every non-empty input, the text returned has no
\* trailing whitespace (no rule raising).
C5_NoTrailingWhitespace ==
    \A c \in Calls :
        TextCall(c) /\ Done(c) /\ FailedAt(c) = {} =>
            \/ ret[c].s = <<>>
            \/ ret[c].s[Len(ret[c].s)] \notin Whitespace

\* the rules of the history of call c, as a set
RulesCalled(c) == {trace[c][k].rule : k \in 1..Len(trace[c])}

\* how far call c has come: 0 before line 10, then the position of the
\* loop, and past every position once it has ended
Progress(c) ==
    IF pc[c] = "call" THEN 0
    ELSE IF pc[c] = "loop" THEN idx[c]
    ELSE NumRules + 2

\* call c has a next step: it is at line 10, or at the loop head with
\* nothing left to iterate, an empty text, a rule that returns or one that
\* raises
CanStep(c) ==
    \/ pc[c] = "call"
    \/ /\ pc[c] = "loop"
       /\ \/ idx[c] > Len(registry)
          \/ ~Truthy(sql[c])
          \/ Raises(registry[idx[c]], sql[c]) = ""
          \/ Failures(c, registry[idx[c]], sql[c]) # {}

\* C6: whatever the input and whichever rules fail, no rule is called twice
\* in one call, a call that has not ended can always take a step, every step
\* moves it forward through the at most NumRules + 2 positions of the
\* driver, and a call that has ended has returned a value.
C6_Terminates ==
    /\ [](\A c \in Calls :
            /\ Len(trace[c]) <= NumRules
            /\ Cardinality(RulesCalled(c)) = Len(trace[c])
            /\ Progress(c) <= NumRules + 2
            /\ ~Done(c) => CanStep(c)
            /\ Done(c) => ret[c] # Unset)
    /\ [][/\ \A c \in Calls : Progress(c)' >= Progress(c)
          /\ \E c \in Calls : Progress(c)' > Progress(c)]_vars

\* a call has ended after calling every rule, one of which raised
C6_Witness ==
    \E c \in Calls :
        Done(c) /\ Len(trace[c]) = NumRules /\ FailedAt(c) # {}

\* the log holds an ERROR record that names the rule (in its message or in
\* the frames of its traceback) and carries the text
LoggedWithRuleAndText(rule, text) ==
    \E i \in 1..Len(log) :
        /\ log[i].level = "ERROR"
        /\ log[i].msg = text
        /\ \E j \in 1..Len(log[i].tb) : log[i].tb[j] = rule

\* C7 as stated: for every rule that raised there is an error-level log
\* record that identifies the rule by its name and carries the text current
\* at the failure.
C7_FailureLoggedWithRuleName ==
    \A c \in Calls :
        \A k \in FailedAt(c) :
            LoggedWithRuleAndText(trace[c][k].rule, trace[c][k].before)

\* C8 as stated: a call whose argument is None or not text ends with an
\* exception raised to its caller, and a call on text never does.
C8_OnlyMisusePropagates ==
    \A c \in Calls :
        Done(c) =>
            (Propagated(c) <=> input[c].kind \in {"None", "int"})

RECURSIVE RunFrom(_, _)
\* The driver run by itself from the k-th rule on v.
RunFrom(k, v) ==
    IF k > NumRules \/ ~Truthy(v) THEN v
    ELSE RunFrom(k + 1, IF Raises(parsers[k], v) = "" THEN Result(parsers[k], v)
                        ELSE v)

\* What the call returns when it runs alone.
RunAlone(v) == RunFrom(1, v)

\* C9: under any interleaving of concurrent calls, each call returns what it
\* returns when run alone on its input, and the registry is never changed.
C9_NoCrossCallState ==
    /\ registry = parsers
    /\ \A c \in Calls : Done(c) => ret[c] = RunAlone(input[c])

\* two calls have ended, one on a text that the rules changed and one whose
\* rules all raised, and the first finished between two failures of the
\* second
C9_Witness ==
    /\ \A c \in Calls : Done(c)
    /\ \E c \in Calls : TextCall(c) /\ ret[c] # input[c]
    /\ \E i \in 1..Len(log) : \E j \in 1..Len(log) : \E k \in 1..Len(log) :
         /\ i < j /\ j < k
         /\ log[i].level = "ERROR" /\ log[j].level = "INFO"
         /\ log[k].level = "ERROR"

-----------------------------------------------------------------------------
(* Properties of the rules *)

\* the positions of s at which an encoding hint starts: white space, the
\* keyword encode, a blank and the name of the encoding
HintStarts(s) ==
    {i \in 1..Len(s) :
        /\ i + 3 <= Len(s)
        /\ s[i] \in Whitespace
        /\ Lower(s[i + 1]) = "encode"
        /\ s[i + 2] = " "
        /\ s[i + 3] \notin Punct}

\* every hint of s is followed by a comma or by a closing paren
HintsInColumnList(s) ==
    /\ HintStarts(s) # {}
    /\ \A i \in HintStarts(s) : i + 4 <= Len(s) /\ s[i + 4] \in {",", ")"}

RECURSIVE Keep(_, _, _)
\* s from position j on, without the lexemes at the positions in drop
Keep(s, j, drop) ==
    IF j > Len(s) THEN <<>>
    ELSE (IF j \in drop THEN <<>> ELSE <<s[j]>>) \o Keep(s, j + 1, drop)

\* s with its hints deleted and nothing else
WithoutHints(s) ==
    Keep(s, 1, UNION {i..(i + 3) : i \in HintStarts(s)})

\* C10 as stated: on a text whose encoding hints are each followed by a
\* comma or by the closing paren of the column list, parse_encoding deletes
\* the hints and nothing else.
C10_OnlyHintRemoved ==
    \A c \in Calls :
        /\ trace[c] # <<>>
        /\ trace[c][1].rule = "parse_encoding"
        /\ trace[c][1].ok
        /\ HintsInColumnList(trace[c][1].before.s)
        => trace[c][1].after.s = WithoutHints(trace[c][1].before.s)


-----------------------------------------------------------------------------
(* Properties of the rules on crafted statements *)

\* the rule calls of call c in which `rule` returned
Returned(c, rule) ==
    {k \in 1..Len(trace[c]) : trace[c][k].rule = rule /\ trace[c][k].ok}

IsPrefix(p, s) == Len(p) <= Len(s) /\ SubSeq(s, 1, Len(p)) = p

\* the lexemes of s from the (n+1)-st on
Rest(s, n) == SubSeq(s, n + 1, Len(s))

\* word w occurs in s, in whatever case
Mentions(s, w) == \E i \in 1..Len(s) : Lower(s[i]) = w

\* the number of "(" minus the number of ")" among the first n lexemes
RECURSIVE Depth(_, _)
Depth(s, n) ==
    IF n = 0 THEN 0
    ELSE Depth(s, n - 1) + (IF s[n] = "(" THEN 1 ELSE IF s[n] = ")" THEN -1
                            ELSE 0)

Balanced(s) == Depth(s, Len(s)) = 0 /\ \A n \in 1..Len(s) : Depth(s, n) >= 0

\* out is statement x without its table-level clauses: no diststyle or
\* distkey is left, the column list of x is kept with balanced parentheses,
\* and behind it stands nothing but white space and the ";"
ClausesStripped(x, out) ==
    /\ ~Mentions(out, "diststyle") /\ ~Mentions(out, "distkey")
    /\ Balanced(out)
    /\ \E cols \in ColumnLists :
         /\ IsPrefix(CreateTable(cols), x)
         /\ IsPrefix(CreateTable(cols), out)
         /\ \A i \in Len(CreateTable(cols)) + 1..Len(out) :
              out[i] \in Whitespace \cup {";"}

\* C11: for a create-table statement whose column list is followed by the
\* table-level clauses diststyle <style> and distkey(<col>), each set off by
\* white space, parse_dist_sort and the whole translation leave no diststyle
\* or distkey fragment and keep the column list, parentheses balanced.
C11_DistClausesRemoved ==
    \A c \in Calls :
        /\ \A k \in Returned(c, "parse_dist_sort") :
             trace[c][k].before.s \in DistStatements =>
                 ClausesStripped(trace[c][k].before.s, trace[c][k].after.s)
        /\ (Done(c) /\ input[c].kind = "str" /\ input[c].s \in DistStatements) =>
             ret[c].kind = "str" /\ ClausesStripped(input[c].s, ret[c].s)

\* the translation of 'create table foo (a int) diststyle even distkey(a);'
\* has ended and parse_dist_sort has shortened the statement
C11_Witness ==
    \E c \in Calls :
        /\ Done(c)
        /\ input[c] = Str(CreateTable(<<"(", "a", " ", "int", ")">>)
                            \o <<" ", "diststyle", " ", "even", " ", "distkey",
                                 "(", "a", ")", ";">>)
        /\ \E k \in Returned(c, "parse_dist_sort") :
             Len(trace[c][k].after.s) < Len(trace[c][k].before.s)
        /\ ret[c] = Str(CreateTable(<<"(", "a", " ", "int", ")">>) \o <<" ", ";">>)

\* the rename statement as the rule writes it: keywords in lower case
Renamed(schema, target) ==
    AlterRename(<<"alter", "table", "rename", "to">>, schema, target)

\* C12: for every statement 'alter table <schema>.<table> rename to <name>'
\* with an unqualified <name>, parse_atrt, and the whole translation of a
\* text with that statement, yield
\* 'alter table <schema>.<table> rename to <schema>.<name>'.
C12_RenameTargetQualified ==
    \A c \in Calls :
        \A pre \in Before, kw \in AlterWords, schema \in Schemas, n \in Names,
           post \in Behind :
            LET x == pre \o AlterRename(kw, schema, <<n>>) \o post
                y == pre \o Renamed(schema, <<schema, ".", n>>) \o post
            IN  /\ \A k \in Returned(c, "parse_atrt") :
                     trace[c][k].before.s = x => trace[c][k].after.s = y
                /\ (Done(c) /\ input[c] = Str(x)) => ret[c] = Str(y)

\* 'alter table myschema.t rename to newname' has been translated to
\* 'alter table myschema.t rename to myschema.newname'
C12_Witness ==
    \E c \in Calls :
        /\ Done(c)
        /\ input[c] = Str(Renamed("myschema", <<"newname">>))
        /\ \E k \in Returned(c, "parse_atrt") :
             trace[c][k].after # trace[c][k].before
        /\ ret[c] = Str(Renamed("myschema", <<"myschema", ".", "newname">>))

\* C13: when the rename target is already qualified, 'alter table <s>.<t>
\* rename to <s2>.<n>', parse_atrt puts the schema of the table before it
\* all the same: 'alter table <s>.<t> rename to <s>.<s2>.<n>'.
C13_QualifiedTargetDoubled ==
    \A c \in Calls :
        \A k \in Returned(c, "parse_atrt") :
            \A pre \in Before, kw \in AlterWords, s \in Schemas,
               s2 \in Schemas, n \in Names, post \in Behind :
                trace[c][k].before.s
                        = pre \o AlterRename(kw, s, <<s2, ".", n>>) \o post
                    => trace[c][k].after.s
                           = pre \o Renamed(s, <<s, ".", s2, ".", n>>) \o post

\* parse_atrt has been given a statement whose target names another schema
\* and has returned it with two qualifiers
C13_Witness ==
    \E c \in Calls :
        \E k \in Returned(c, "parse_atrt") :
            /\ trace[c][k].before = Str(Renamed("s", <<"myschema", ".", "n">>))
            /\ trace[c][k].after
                   = Str(Renamed("s", <<"s", ".", "myschema", ".", "n">>))


\* C14: every rule is idempotent-safe: when a rule has rewritten a text, its
\* pattern is not triggered again by what it wrote, so applying the rule to
\* its own result changes nothing, r(r(x)) = r(x).
C14_RulesIdempotent ==
    \A c \in Calls :
        \A k \in 1..Len(trace[c]) :
            (trace[c][k].ok /\ trace[c][k].after # trace[c][k].before) =>
                ApplyRule(trace[c][k].rule, trace[c][k].after.s)
                    = trace[c][k].after.s


\* The literal entries of the swap table as the docstring and the spec give
\* them: source spelling (in lower case) and target spelling.
ListedSwaps ==
    << << <<"bool_or">>, <<"BOOLOR_AGG">> >>,
       << <<"bool_and">>, <<"BOOLAND_AGG">> >>,
       << <<" ", "~", " ", "'">>, <<" ", "regexp", " ", "'">> >>,
       << <<"btrim">>, <<"TRIM">> >>,
       << <<"char_length">>, <<"LEN">> >>,
       << <<"datepart">>, <<"DATE_PART">> >>,
       << <<"date_diff">>, <<"DATEDIFF">> >>,
       << <<"date_add", "(">>, <<"DATEADD", "(">> >>,
       << <<"from_unixtime">>, <<"TO_TIMESTAMP">> >>,
       << <<"is", " ", "false">>, <<" ", "=", " ", "FALSE">> >>,
       << <<"is", " ", "true">>, <<" ", "=", " ", "TRUE">> >>,
       << <<"nvl">>, <<"COALESCE">> >>,
       << <<"sysdate">>, <<"CURRENT_TIMESTAMP">> >>,
       << <<"ceiling", "(">>, <<"CEIL", "(">> >>,
       << <<"isnull", "(">>, <<"NVL", "(">> >> >>

\* the entries whose source spelling stands in s right after position i
SwapsAt(s, i) ==
    {k \in 1..Len(ListedSwaps) :
        /\ i + Len(ListedSwaps[k][1]) <= Len(s)
        /\ [j \in 1..Len(ListedSwaps[k][1]) |-> Lower(s[i + j])]
               = ListedSwaps[k][1]}

\* s with every occurrence of a source spelling replaced by its target
\* spelling, in one pass from the left, and nothing else changed
RECURSIVE SwappedFrom(_, _)
SwappedFrom(s, i) ==
    IF i >= Len(s) THEN <<>>
    ELSE IF SwapsAt(s, i) = {} THEN <<s[i + 1]>> \o SwappedFrom(s, i + 1)
    ELSE LET k == CHOOSE k \in SwapsAt(s, i) :
                      \A m \in SwapsAt(s, i) : k <= m
         IN  ListedSwaps[k][2] \o SwappedFrom(s, i + Len(ListedSwaps[k][1]))

\* C17: parse_swap_methods replaces every occurrence of each literal source
\* name or operator of its table by the listed target spelling and changes
\* nothing else (in a text without a 'weeks' call or a JSON extraction,
\* which the two parameterized entries handle), and the translation of
\* 'select bool_or(x) from t' is exactly 'select BOOLOR_AGG(x) from t'.
C17_LiteralSwaps ==
    \A c \in Calls :
        /\ \A k \in Returned(c, "parse_swap_methods") :
             (/\ ~Mentions(trace[c][k].before.s, "weeks")
              /\ ~Mentions(trace[c][k].before.s, "json_extract_path_text")) =>
                 trace[c][k].after.s = SwappedFrom(trace[c][k].before.s, 0)
        /\ (Done(c) /\ input[c] = Str(Select(<<"bool_or", "(", "x", ")">>))) =>
             ret[c] = Str(Select(<<"BOOLOR_AGG", "(", "x", ")">>))

\* 'select bool_or(x) from t' has been translated to
\* 'select BOOLOR_AGG(x) from t', the text having been changed by
\* parse_swap_methods
C17_Witness ==
    \E c \in Calls :
        /\ Done(c)
        /\ input[c] = Str(Select(<<"bool_or", "(", "x", ")">>))
        /\ ret[c] = Str(Select(<<"BOOLOR_AGG", "(", "x", ")">>))
        /\ \E k \in Returned(c, "parse_swap_methods") :
             /\ trace[c][k].before = input[c]
             /\ trace[c][k].after = ret[c]

\* the head of a week-granularity date-difference call stands in s right
\* after position i: DATEDIFF('weeks', or DATE_DIFF('weeks', in any case
WeeksHeadAt(s, i) ==
    /\ i + 6 <= Len(s)
    /\ [j \in 1..6 |-> Lower(s[i + j])]
           \in {<<f, "(", "'", "weeks", "'", ",">> : f \in {"datediff", "date_diff"}}

\* s with the head of every week-granularity call written as the table's
\* template writes it, DATEDIFF('week', and a blank, and all other lexemes,
\* the remaining arguments among them, as they are
RECURSIVE WeeksNormalizedFrom(_, _)
WeeksNormalizedFrom(s, i) ==
    IF i >= Len(s) THEN <<>>
    ELSE IF WeeksHeadAt(s, i)
         THEN <<"DATEDIFF", "(", "'", "week", "'", ",", " ">>
                  \o WeeksNormalizedFrom(s, i + 6)
         ELSE <<s[i + 1]>> \o WeeksNormalizedFrom(s, i + 1)

\* C18: for every call DATEDIFF('weeks', <args>) or DATE_DIFF('weeks',
\* <args>) of a text, parse_swap_methods writes the unit as 'week' and emits
\* the remaining arguments as they appeared in the input.
C18_EveryWeeksCallNormalized ==
    \A c \in Calls :
        \A k \in Returned(c, "parse_swap_methods") :
            trace[c][k].before.s \in WeeksStatements =>
                trace[c][k].after.s = WeeksNormalizedFrom(trace[c][k].before.s, 0)

\* C19: the order of the registry matters: for a text that ends in a sort
\* key or distribution key clause (and white space), parse_dist_sort followed
\* by parse_trailing_whitespace, the order of the registry, yields another
\* text than parse_trailing_whitespace followed by parse_dist_sort.
C19_OrderMatters ==
    \A c \in Calls :
        \A k \in Returned(c, "parse_dist_sort") :
            trace[c][k].before.s \in OrderStatements =>
                parse_trailing_whitespace(trace[c][k].after.s)
                    # parse_dist_sort(
                          parse_trailing_whitespace(trace[c][k].before.s))

\* in one call on such a text parse_dist_sort has removed the clause and
\* parse_trailing_whitespace, later, the white space it left
C19_Witness ==
    \E c \in Calls :
        \E k \in Returned(c, "parse_dist_sort") :
            \E m \in Returned(c, "parse_trailing_whitespace") :
                /\ k < m
                /\ trace[c][k].before.s \in OrderStatements
                /\ trace[c][k].after # trace[c][k].before
                /\ trace[c][m].after # trace[c][m].before
                /\ trace[c][m].after.s # <<>>

\* the number of lexemes of s that are the word w, in whatever case
Count(s, w) == Cardinality({i \in 1..Len(s) : Lower(s[i]) = w})

\* C20: parse_bool maps the type synonym bool to boolean in both positions:
\* in every column definition of a column list, the last one before the
\* closing paren included, and in every cast '::bool'; so of a statement
\* whose only uses of bool are these, no bool is left and each has become
\* boolean.
C20_EveryBoolMapped ==
    \A c \in Calls :
        \A k \in Returned(c, "parse_bool") :
            trace[c][k].before.s \in BoolStatements =>
                /\ ~Mentions(trace[c][k].after.s, "bool")
                /\ Count(trace[c][k].after.s, "boolean")
                       = Count(trace[c][k].before.s, "bool")

-----------------------------------------------------------------------------
(* Properties of update_query_sql_syntax and the driver *)

\* sub occurs in s as a run of consecutive lexemes
Occurs(sub, s) ==
    \E i \in 0..Len(s) - Len(sub) : SubSeq(s, i + 1, i + Len(sub)) = sub

\* the number of lines of a text
LineCount(s) == Cardinality({i \in 1..Len(s) : s[i] = "\n"}) + 1

\* the statements of the queries that the target dialect has no equivalent
\* of: session resource-group and concurrency-slot statements
NoEquivalent ==
    {<<"set", " ", "query_group", " ", "to", " ", "'", "x", "'", ";">>,
     <<"reset", " ", "query_group", ";">>,
     <<"set", " ", "wlm_query_slot_count", " ", "to", " ", "3", ";">>}

\* C15: a statement with no target equivalent ('set query_group to ...',
\* 'reset query_group', 'set wlm_query_slot_count to N;') is commented out,
\* not deleted: the translated query still has the statement behind the
\* comment marker "-- " and has as many lines as the query had.
C15_CommentedOutNotDeleted ==
    \A c \in Calls :
        (Done(c) /\ raw_query[c].kind = "str") =>
            \A st \in NoEquivalent :
                Occurs(st, raw_query[c].s) =>
                    /\ Occurs(<<"-", "-", " ">> \o st, ret[c].s)
                    /\ LineCount(ret[c].s) = LineCount(raw_query[c].s)

\* the text with every lexeme in lower case
FoldAll(s) == [i \in 1..Len(s) |-> Lower(s[i])]

\* C16: keyword matching is case-insensitive in every rewrite: writing the
\* keywords of a text in another letter case does not change whether a
\* rewrite is applied, so the rewritten text is the same up to letter case,
\* for the rewrites of update_query_sql_syntax and for every rule.
C16_CaseInsensitiveRewrites ==
    \A c \in Calls :
        /\ (pc[c] # "caller" /\ raw_query[c].kind = "str") =>
              FoldAll(input[c].s)
                  = FoldAll(PreparedQuery(FoldAll(raw_query[c].s)))
        /\ \A k \in 1..Len(trace[c]) :
              trace[c][k].ok =>
                  FoldAll(trace[c][k].after.s)
                      = FoldAll(ApplyRule(trace[c][k].rule,
                                          FoldAll(trace[c][k].before.s)))

-----------------------------------------------------------------------------
(* Properties of single rules: no match, analyze, column-level distkey, *)
(* the swap table                                                        *)

\* the rule call call c made last
LastCall(c) == trace[c][Len(trace[c])]

\* no pattern of the rule matches anywhere in text s
MatchesNothing(rule, s) == \A p \in PatternsOf(rule) : ~Search(p, s)

\* C21: a rule other than parse_trailing_whitespace that is called on a text
\* in which none of its patterns matches returns that text unchanged and
\* raises nothing.  (Every rule call is the last one of its call in the
\* state that follows it.)
C21_NoMatchNoOp ==
    \A c \in Calls :
        (/\ trace[c] # <<>>
         /\ LastCall(c).rule # "parse_trailing_whitespace"
         /\ LastCall(c).before.kind = "str"
         /\ MatchesNothing(LastCall(c).rule, LastCall(c).before.s))
            => /\ LastCall(c).ok
               /\ LastCall(c).exc = ""
               /\ LastCall(c).after = LastCall(c).before

\* parse_encoding has been called on 'ALTER TABLE s.t RENAME TO n', in which
\* its patterns match nothing: it returned the text as it was, upper case
\* and all
C21_Witness ==
    \E c \in Calls :
        /\ trace[c] # <<>>
        /\ LastCall(c) =
             Called("parse_encoding",
                    Str(AlterRename(<<"ALTER", "TABLE", "RENAME", "TO">>, "s",
                                    <<"n">>)),
                    TRUE,
                    Str(AlterRename(<<"ALTER", "TABLE", "RENAME", "TO">>, "s",
                                    <<"n">>)),
                    "")
        /\ MatchesNothing("parse_encoding", LastCall(c).before.s)
        /\ ~MatchesNothing("parse_atrt", LastCall(c).before.s)

\* the offset behind the first ";" of s after offset i
StatementEnd(s, i) ==
    CHOOSE j \in i + 1..Len(s) :
        s[j] = ";" /\ \A k \in i + 1..j - 1 : s[k] # ";"

\* s from offset i on without its analyze statements: each runs from the
\* keyword through the next ";" and everything else is kept
RECURSIVE DropAnalyzeFrom(_, _)
DropAnalyzeFrom(s, i) ==
    IF i >= Len(s) THEN <<>>
    ELSE IF Lower(s[i + 1]) = "analyze" /\ \E j \in i + 1..Len(s) : s[j] = ";"
         THEN DropAnalyzeFrom(s, StatementEnd(s, i))
         ELSE <<s[i + 1]>> \o DropAnalyzeFrom(s, i + 1)

\* C22: on a script of statements that are queries and 'analyze <table>;'
\* statements, parse_analyze removes each analyze statement from its keyword
\* through its ";" and nothing else: no analyze is left, and every other
\* statement and every separator stands in the result as before.
C22_AnalyzeStripped ==
    \A c \in Calls :
        (/\ trace[c] # <<>>
         /\ LastCall(c).rule = "parse_analyze"
         /\ LastCall(c).before.kind = "str"
         /\ LastCall(c).before.s \in AnalyzeScripts)
            => /\ LastCall(c).ok
               /\ ~Mentions(LastCall(c).after.s, "analyze")
               /\ LastCall(c).after.s = DropAnalyzeFrom(LastCall(c).before.s, 0)
               /\ \A st \in ScriptStatements :
                    (Lower(st[1]) # "analyze" /\ Occurs(st, LastCall(c).before.s))
                        => Occurs(st, LastCall(c).after.s)

\* parse_analyze has turned 'select 1;\nanalyze t;\nselect a from s.t;' into
\* 'select 1;\n\nselect a from s.t;'
C22_Witness ==
    \E c \in Calls :
        /\ trace[c] # <<>>
        /\ LastCall(c) =
             Called("parse_analyze",
                    Str(<<"select", " ", "1", ";", "\n", "analyze", " ", "t",
                          ";", "\n", "select", " ", "a", " ", "from", " ", "s",
                          ".", "t", ";">>),
                    TRUE,
                    Str(<<"select", " ", "1", ";", "\n", "\n", "select", " ",
                          "a", " ", "from", " ", "s", ".", "t", ";">>),
                    "")

\* C23: when distkey is a column attribute inside the column list, as in
\* 'create table t (a int distkey, b int) sortkey(a);', parse_dist_sort
\* removes only the keyword distkey and the sortkey clause: the column
\* definitions that follow and the closing parenthesis of the column list
\* are preserved.
C23_ColumnDistkeyKeepsColumns ==
    \A c \in Calls :
        (/\ trace[c] # <<>>
         /\ LastCall(c).rule = "parse_dist_sort"
         /\ LastCall(c).before.kind = "str"
         /\ LastCall(c).before.s \in ColumnDistStatements)
            => /\ LastCall(c).ok
               /\ \E kw \in {"distkey", "DISTKEY"}, tail \in {<<";">>, <<" ", ";">>} :
                    /\ IsPrefix(ColumnDistkey(kw, <<>>), LastCall(c).before.s)
                    /\ LastCall(c).after.s =
                         <<"create", " ", "table", " ", "t", " ", "(", "a", " ",
                           "int", " ", ",", " ", "b", " ", "int", ")">> \o tail

\* C24: the result of parse_swap_methods contains no text that a search
\* pattern of its swap table still matches: after one pass through the table
\* no source spelling is left.
C24_NoSourceSpellingLeft ==
    \A c \in Calls :
        (/\ trace[c] # <<>>
         /\ LastCall(c).rule = "parse_swap_methods"
         /\ LastCall(c).ok)
            => MatchesNothing("parse_swap_methods", LastCall(c).after.s)

-----------------------------------------------------------------------------
(* Properties of main of mode_helper.py *)

\* the process has ended
Ended == mpc = "exit"

\* the i-th request changes a report on behalf of clone_report: the clone
\* request, the patch of the clone, or the update of its settings
Mutating(i) ==
    \/ sent[i].method = "post" /\ sent[i].path[Len(sent[i].path)] = "/clone"
    \/ sent[i].body.kind \in {"report", "settings"}

\* the i-th request is the one validate_report ends with when it returns
\* normally: the look-up of the collection of the report
CollectionLookUp(i) ==
    sent[i].method = "get" /\ Len(sent[i].path) = 3
        /\ sent[i].path[2] = "/spaces/"

\* a query on Redshift holds one of the banned statements, in whatever case
\* and with whatever white space between its two words
HasBannedStatement(queries) ==
    \E q \in 1..Len(queries), b \in 1..Len(banned_queries) :
        /\ queries[q].data_source_id = REDSHIFT_DS_ID
        /\ Search(Cat(<<L(banned_queries[b][1]), Plus(WS),
                        L(banned_queries[b][2])>>),
                  queries[q].raw_query)

\* C25: clone_report sends no mutating request (clone, patch,
\* update_settings) unless validate_report has returned normally before: the
\* queries and the collection of the report were looked up first, and a
\* report with a banned statement in a Redshift query, with no Redshift
\* query, or in a private collection makes the process exit before any such
\* request.
C25_NoMutationBeforeValidation ==
    /\ \A i \in 1..Len(sent) :
         Mutating(i) => \E j \in 1..i - 1 : CollectionLookUp(j)
    /\ (\/ loc.report_queries # <<>> /\ HasBannedStatement(loc.report_queries)
        \/ loc.report_queries # <<>>
             /\ \A q \in 1..Len(loc.report_queries) :
                  loc.report_queries[q].data_source_id # REDSHIFT_DS_ID
        \/ loc.space_type = "private")
           => /\ Ended
              /\ exit.kind = "SystemExit"
              /\ \A i \in 1..Len(sent) : ~Mutating(i)

\* message msg has been logged
Logged(msg) == \E i \in 1..Len(log) : log[i].msg = Str(msg)

\* do_backup_redshift has returned normally for the report with this token:
\* the clone or its look-up, the patch and the settings update were made for
\* it and the place of the backup was logged
BackedUp(token) ==
    /\ \E i \in 1..Len(sent) :
         /\ sent[i].method = "post"
         /\ sent[i].path = ApiPath(<<"/reports/", token, "/clone">>)
         /\ \E j \in i + 1..Len(sent) : sent[j].body.kind = "settings"
    /\ \E t \in {"c1", "p1"} :
         Logged(<<"View the backed up report at ", t>>)

\* do_update_inplace has been started: main is in it, or a request of it
\* has been sent
UpdateStarted ==
    \/ fn = "do_update_inplace"
    \/ \E i \in 1..Len(sent) : sent[i].body.kind \in {"sync", "query"}
                                  /\ sent[i].path[3] = ReportToken

\* C26: do_update_inplace is started for a report only if do_backup_redshift
\* has returned normally for the same token before (--backup-and-update) or
\* the operator typed exactly 'update this report in-place'
\* (--update-inplace); after any other answer the process has ended without
\* any request sent.
C26_UpdateOnlyBackedUpOrConfirmed ==
    /\ UpdateStarted =>
         \/ Truthy(argv.backup_and_update) /\ answer = None
              /\ BackedUp(argv.backup_and_update.s[1])
         \/ answer = Str(<<"update this report in-place">>)
    /\ (answer # None /\ answer # Str(<<"update this report in-place">>))
         => /\ Ended
            /\ exit.kind = "SystemExit"
            /\ sent = <<>>
            /\ ~UpdateStarted

\* under --backup-and-update the backup was made and logged, nobody was
\* asked, and do_update_inplace has sent its pre-migration sync
C26_Witness ==
    /\ Truthy(argv.backup_and_update)
    /\ BackedUp(ReportToken)
    /\ answer = None
    /\ fn = "do_update_inplace"
    /\ \E i \in 1..Len(sent) : sent[i].body.kind = "sync"


\* the i-th request is the clone request
CloneRequest(i) ==
    /\ sent[i].method = "post"
    /\ sent[i].path[Len(sent[i].path)] = "/clone"

\* the i-th request asks for the reports of the Personal space
PersonalLookUp(i) ==
    /\ sent[i].method = "get"
    /\ sent[i].path[Len(sent[i].path)] = "?order=desc&order_by=created_at"

\* the i-th request renames the clone or updates its settings
PatchOrSettings(i) == sent[i].body.kind \in {"report", "settings"}

\* the process was ended by the exception that the i-th request raised
RaisedBy(i) == Ended /\ exit.kind \in {"HTTPError", "ConnectionError"} /\ exit.at = i

\* C27: after a clone request that failed with HTTP 503, clone_report asks
\* for the Personal space again as long as the newest report's name is
\* null; a report of that space is taken as the clone only if its name is
\* 'Clone of <original name>'; and when the names differ, when no space is
\* named Personal, or when the error was not a 503, the process ends with
\* the error of the clone request and no patch or settings update is sent.
C27_LookUpByNameAfter503 ==
    /\ loc.nulls > 0 =>
         /\ PersonalLookUp(Len(sent))
         /\ \/ mpc = "personal_reports"
            \/ RaisedBy(Len(sent))
            \/ Ended /\ exit.kind = "IndexError"
    /\ (loc.cloned # None /\ loc.cloned.token = "p1") =>
         /\ loc.cloned.name = CloneOf(loc.original.name)
         /\ loc.err.kind = "HTTPError" /\ loc.err.status = 503
         /\ \E i \in 1..Len(sent) : CloneRequest(i) /\ loc.err.at = i
    /\ \A i \in 1..Len(sent) :
         (CloneRequest(i) /\ loc.cloned = None) =>
            /\ \A j \in 1..Len(sent) : ~PatchOrSettings(j)
            /\ (Ended /\ (\/ loc.err = NoExit
                          \/ loc.spaces # <<>> /\ loc.sk > Len(loc.spaces)))
                 => /\ RaisedBy(i)
                    /\ loc.err # NoExit => exit = loc.err
                    /\ Logged(<<"Unable to look up cloned report by name, error when cloning was:">>)
                         \/ exit.kind = "ConnectionError"

\* the clone request failed with 503, the newest report of the Personal
\* space had no name at first and then the name of the clone, and the
\* report found has been patched
C27_Witness ==
    /\ loc.err.kind = "HTTPError" /\ loc.err.status = 503
    /\ loc.cloned # None /\ loc.cloned.token = "p1"
    /\ \E i \in 1..Len(sent) - 1 : PersonalLookUp(i) /\ PersonalLookUp(i + 1)
    /\ \E j \in 1..Len(sent) : sent[j].body.kind = "report"

\* the clone request failed with 503, the newest report of the Personal
\* space is the clone of another report, and the 503 has been raised again
C27_WitnessMismatch ==
    /\ Ended
    /\ exit.kind = "HTTPError" /\ exit.status = 503
    /\ loc.cloned = None
    /\ \E i \in 1..Len(sent) : CloneRequest(i) /\ exit.at = i
    /\ PersonalLookUp(Len(sent))
    /\ loc.sk > Len(loc.spaces)


\* the states of a run in which run_report is said to return
Finished == {"succeeded", "cancelled", "failed"}

\* run_report is waiting for the run
Polling == mpc = "poll"

\* run_report has returned to do_clone_to_snowflake or do_update_inplace
RunReportReturned == mpc \in {"clone_complete", "sync_post"}

\* the i-th request is the post-migration github sync
PostMigrationSync(i) ==
    /\ sent[i].body.kind = "sync"
    /\ sent[i].body.commit_message[Len(sent[i].body.commit_message)]
         = "post-migration"

\* request r asks for the state of the run
AsksRunState(r) ==
    /\ r.method = "get"
    /\ Len(r.path) = 5
    /\ r.path[4] = "/runs/"

\* the i-th request asks for the state of the run
RunLookUp(i) == AsksRunState(sent[i])

\* a step of run_report's loop in which the state of the run was received:
\* run_report returns exactly when that state is a finished one, and goes
\* round again otherwise
PollStep ==
    (Polling /\ Len(sent') = Len(sent) + 1 /\ mpc' # "exit") =>
        /\ AsksRunState(sent'[Len(sent')])
        /\ RunReportReturned' <=> loc'.run_state \in Finished
        /\ ~RunReportReturned' => Polling'

\* what follows run_report has happened only after a finished state of the
\* run was received
AfterRunOnlyFinished ==
    (\/ RunReportReturned
     \/ Logged(<<"Clone complete!">>)
     \/ \E i \in 1..Len(sent) : PostMigrationSync(i))
        => /\ loc.run_state \in Finished
           /\ Logged(<<"report run ", loc.run_state, "!">>)
           /\ \E j \in 1..Len(sent) :
                /\ RunLookUp(j)
                /\ \A i \in 1..j : ~PostMigrationSync(i)

\* C28: run_report returns if and only if a polled state of the run is
\* succeeded, cancelled or failed; with any other state it polls again; once
\* the run is in one of the three states run_report stops polling; and the
\* 'Clone complete!' record and the post-migration github sync never come
\* before such a state was received.
C28_RunReportReturnsOnFinished ==
    /\ [][PollStep]_vars
    /\ [][~Polling /\ RunReportReturned' => FALSE]_vars
    /\ []AfterRunOnlyFinished
    /\ (Polling /\ srv_run \in Finished) ~> ~Polling

\* the run was seen enqueued, then failed, and the post-migration sync of
\* do_update_inplace has been sent
C28_Witness ==
    /\ fn = "do_update_inplace"
    /\ loc.run_state = "failed"
    /\ Logged(<<"... ", "pending">>) \/ Logged(<<"... ", "enqueued">>)
    /\ \E i \in 1..Len(sent) : PostMigrationSync(i)

=============================================================================
